---- MODULE Spec2Model ----
(***************************************************************************)
(* TubeWEAVE: the Direct Schedule Editor (segment model), the              *)
(* segment -> EHD step compiler, the pattern export / import path and the  *)
(* pattern messages sent to the device.                                    *)
(*                                                                         *)
(* Number representation.  The program computes with JavaScript numbers.   *)
(* The model keeps every quantity as an exact integer in a fixed unit:     *)
(*   - tube positions and lengths (startCm, endCm, manualTubeLengthCm)     *)
(*     are counted in tenths of a centimetre, so 15 stands for 1.5 cm and  *)
(*     the unsnapped minimum gap 0.1 cm is 1 and the snapped one is 10;    *)
(*   - feed speeds are counted in tenths of a mm/s (100 stands for 10);    *)
(*   - canvas coordinates are CSS pixels at zoom 1 (40 px per cm);         *)
(*   - channel values, density levels and durations (ms) are integers.     *)
(* Math.round is modelled by JsRound on an exact quotient.                 *)
(***************************************************************************)
EXTENDS Integers, Sequences, FiniteSets, TLC

(***************************************************************************)
(* Utility                                                                 *)
(***************************************************************************)
Min2(a, b) == IF a <= b THEN a ELSE b

Max2(a, b) == IF a >= b THEN a ELSE b

Abs(a) == IF a < 0 THEN -a ELSE a

\* const clamp = (v, lo, hi) => Math.max(lo, Math.min(hi, v));
clamp(v, lo, hi) == Max2(lo, Min2(hi, v))

\* Math.round(n / d) for d # 0: the nearest integer, halves rounded up.
JsRound(n, d) ==
  LET nn == IF d < 0 THEN -n ELSE n
      dd == Abs(d)
  IN  (2 * nn + dd) \div (2 * dd)

\* The JavaScript value `null` of a calibration argument.
NoCalibration == [none |-> TRUE]

IsNull(calibration) == "none" \in DOMAIN calibration

DENSE_PARAMS == [ch0 |-> 80, ch1 |-> 70, ch2 |-> 0, duration_base |-> 1500]

SPARSE_PARAMS == [ch0 |-> 73, ch1 |-> 70, ch2 |-> 0, duration_base |-> 2000]

\* Lowest and highest density level.
MinLevel == 1

MaxLevel == 10

\* ratio = (level - 1) / 9 is kept as the numerator over LevelSpan.
LevelSpan == MaxLevel - MinLevel

\* Math.round(lerp(a, b, (level - 1) / 9))
RoundLerp(a, b, level) == JsRound(LevelSpan * a + (b - a) * (level - MinLevel), LevelSpan)

denseParamsOf(calibration) ==
  IF IsNull(calibration) THEN DENSE_PARAMS
  ELSE [ch0 |-> calibration.denseCh0, ch1 |-> calibration.ch1, ch2 |-> 0,
        duration_base |-> calibration.denseDuration]

sparseParamsOf(calibration) ==
  IF IsNull(calibration) THEN SPARSE_PARAMS
  ELSE [ch0 |-> calibration.sparseCh0, ch1 |-> calibration.ch1, ch2 |-> 0,
        duration_base |-> calibration.sparseDuration]

\* The derivation without the clamp of the level.
densityLevelToEHDParamsUnclamped(densityLevel, calibration) ==
  LET denseParams == denseParamsOf(calibration)
      sparseParams == sparseParamsOf(calibration)
  IN  [ch0 |-> RoundLerp(sparseParams.ch0, denseParams.ch0, densityLevel),
       ch1 |-> denseParams.ch1,
       ch2 |-> denseParams.ch2,
       duration_base |-> RoundLerp(sparseParams.duration_base, denseParams.duration_base,
                                   densityLevel)]

\* Convert density level (1-10) to EHD parameters using linear interpolation.
densityLevelToEHDParams(densityLevel, calibration) ==
  LET level == clamp(densityLevel, MinLevel, MaxLevel)
      denseParams == denseParamsOf(calibration)
      sparseParams == sparseParamsOf(calibration)
  IN  [ch0 |-> RoundLerp(sparseParams.ch0, denseParams.ch0, level),
       ch1 |-> denseParams.ch1,
       ch2 |-> denseParams.ch2,
       duration_base |-> RoundLerp(sparseParams.duration_base, denseParams.duration_base, level)]

(***************************************************************************)
(* Segment -> step compiler                                                *)
(***************************************************************************)
\* The rest channel values of gap steps.
RestCh0 == 0

RestCh1 == 70

\* Duration of the single step of an empty schedule.
EmptyDuration == 1500

\* Lower limit of every compiled duration (ms).
MinDuration == 1000

\* The array left in input order.
SortByStartSkipped(segments) == segments

\* Array.prototype.sort with (a, b) => a.startCm - b.startCm: a stable
\* ascending sort by start.
RECURSIVE InsertByStart(_, _)
InsertByStart(sorted, seg) ==
  IF sorted = << >> THEN << seg >>
  ELSE IF Head(sorted).startCm <= seg.startCm
       THEN << Head(sorted) >> \o InsertByStart(Tail(sorted), seg)
       ELSE << seg >> \o sorted

RECURSIVE SortByStart(_)
SortByStart(segments) ==
  IF segments = << >> THEN << >>
  ELSE InsertByStart(SortByStart(SubSeq(segments, 1, Len(segments) - 1)),
                     segments[Len(segments)])

\* Math.round((lengthCm * 10 / feedSpeedMmPerSec) * 1000); the length is in
\* tenths of a cm (= mm) and the feed speed in tenths of a mm/s.
DurationMs(length, feedSpeed) == JsRound(length * 10000, feedSpeed)

\* A gap step that always lasts the minimum.
GapStepFixed(length, feedSpeed) ==
  [ch0 |-> RestCh0, ch1 |-> RestCh1, duration |-> MinDuration]

GapStep(length, feedSpeed) ==
  [ch0 |-> RestCh0, ch1 |-> RestCh1,
   duration |-> Max2(MinDuration, DurationMs(length, feedSpeed))]

SegmentStep(seg, feedSpeed, calibration) ==
  LET ehdParams == densityLevelToEHDParams(seg.densityLevel, calibration)
  IN  [ch0 |-> ehdParams.ch0, ch1 |-> ehdParams.ch1,
       duration |-> Max2(MinDuration, DurationMs(seg.endCm - seg.startCm, feedSpeed))]

\* The loop without its `steps.length < maxSteps` condition.
RECURSIVE CompileLoopUncapped(_, _, _, _, _, _, _)
CompileLoopUncapped(sortedSegments, i, steps, currentPos, feedSpeed, maxSteps, calibration) ==
  IF i <= Len(sortedSegments)
  THEN LET seg == sortedSegments[i]
           withGap == IF seg.startCm > currentPos
                      THEN Append(steps, GapStep(seg.startCm - currentPos, feedSpeed))
                      ELSE steps
       IN  CompileLoopUncapped(sortedSegments, i + 1,
                               Append(withGap, SegmentStep(seg, feedSpeed, calibration)),
                               seg.endCm, feedSpeed, maxSteps, calibration)
  ELSE [steps |-> steps, currentPos |-> currentPos, next |-> i]

\* The loop `for (i = 0; i < sortedSegments.length && steps.length < maxSteps; i++)`
\* from index i (1-based) on; returns the steps and the final currentPos.
RECURSIVE CompileLoop(_, _, _, _, _, _, _)
CompileLoop(sortedSegments, i, steps, currentPos, feedSpeed, maxSteps, calibration) ==
  IF i <= Len(sortedSegments) /\ Len(steps) < maxSteps
  THEN LET seg == sortedSegments[i]
           withGap == IF seg.startCm > currentPos
                      THEN Append(steps, GapStep(seg.startCm - currentPos, feedSpeed))
                      ELSE steps
       IN  CompileLoop(sortedSegments, i + 1,
                       Append(withGap, SegmentStep(seg, feedSpeed, calibration)),
                       seg.endCm, feedSpeed, maxSteps, calibration)
  ELSE [steps |-> steps, currentPos |-> currentPos, next |-> i]

\* The final gap, if there is space after the last segment.
FinalGap(loop, feedSpeed, tubeLengthCm) ==
  IF loop.currentPos < tubeLengthCm
  THEN Append(loop.steps, GapStep(tubeLengthCm - loop.currentPos, feedSpeed))
  ELSE loop.steps

\* The part of segmentsToEHDSteps after the early return.
CompileNonEmpty(segments, feedSpeedMmPerSec, maxSteps, calibration, tubeLengthCm) ==
  FinalGap(CompileLoop(SortByStart(segments), 1, << >>, 0,
                       feedSpeedMmPerSec, maxSteps, calibration),
           feedSpeedMmPerSec, tubeLengthCm)

\* The early return with the duration its comment names (1000).
segmentsToEHDStepsAsCommented(segments, feedSpeedMmPerSec, maxSteps, calibration, tubeLengthCm) ==
  IF segments = << >>
  THEN << [ch0 |-> RestCh0, ch1 |-> RestCh1, duration |-> MinDuration] >>
  ELSE CompileNonEmpty(segments, feedSpeedMmPerSec, maxSteps, calibration, tubeLengthCm)

segmentsToEHDSteps(segments, feedSpeedMmPerSec, maxSteps, calibration, tubeLengthCm) ==
  IF segments = << >>
  THEN << [ch0 |-> RestCh0, ch1 |-> RestCh1, duration |-> EmptyDuration] >>
  ELSE CompileNonEmpty(segments, feedSpeedMmPerSec, maxSteps, calibration, tubeLengthCm)

\* An overlap test that also counts touching segments.
segmentsOverlapTouching(seg1, seg2) ==
  seg1.startCm <= seg2.endCm /\ seg2.startCm <= seg1.endCm

\* Check if two segments overlap.
segmentsOverlap(seg1, seg2) ==
  seg1.startCm < seg2.endCm /\ seg2.startCm < seg1.endCm

\* A result for a full tube that reports a place at 0 instead of `null`.
NoPositionReportedFound == [found |-> TRUE, startCm |-> 0, endCm |-> 0]

\* The result `null` of findNextAvailablePosition.
NoPosition == [found |-> FALSE, startCm |-> 0, endCm |-> 0]

\* The gap scan `for (const seg of sortedSegments)` from index i on.
RECURSIVE ScanGaps(_, _, _, _, _)
ScanGaps(sortedSegments, i, currentPos, preferredLength, tubeLength) ==
  IF i <= Len(sortedSegments)
  THEN IF currentPos + preferredLength <= sortedSegments[i].startCm
       THEN [found |-> TRUE, startCm |-> currentPos, endCm |-> currentPos + preferredLength]
       ELSE ScanGaps(sortedSegments, i + 1, sortedSegments[i].endCm, preferredLength, tubeLength)
  ELSE IF currentPos + preferredLength <= tubeLength
       THEN [found |-> TRUE, startCm |-> currentPos, endCm |-> currentPos + preferredLength]
       ELSE NoPosition

\* The search over the segments in the order given, without sorting them.
findNextAvailablePositionUnsorted(segments, preferredStart, preferredLength, tubeLength) ==
  LET preferredEnd == preferredStart + preferredLength
      newSegment == [startCm |-> preferredStart, endCm |-> preferredEnd]
      hasOverlap == \E k \in 1..Len(segments) : segmentsOverlap(segments[k], newSegment)
  IN  IF preferredEnd <= tubeLength /\ ~hasOverlap
      THEN [found |-> TRUE, startCm |-> preferredStart, endCm |-> preferredEnd]
      ELSE ScanGaps(segments, 1, 0, preferredLength, tubeLength)

\* Find the next available position for a new segment.
findNextAvailablePosition(segments, preferredStart, preferredLength, tubeLength) ==
  LET sortedSegments == SortByStart(segments)
      preferredEnd == preferredStart + preferredLength
      newSegment == [startCm |-> preferredStart, endCm |-> preferredEnd]
      hasOverlap == \E k \in 1..Len(sortedSegments) :
                       segmentsOverlap(sortedSegments[k], newSegment)
  IN  IF preferredEnd <= tubeLength /\ ~hasOverlap
      THEN [found |-> TRUE, startCm |-> preferredStart, endCm |-> preferredEnd]
      ELSE ScanGaps(sortedSegments, 1, 0, preferredLength, tubeLength)

(***************************************************************************)
(* State                                                                   *)
(***************************************************************************)
VARIABLES
  manualSegments,        \* useState([]): sequence of {startCm, endCm, densityLevel}
  manualTubeLengthCm,    \* useState(10)
  manualSelectedIdx,     \* useState(-1): 0-based index, -1 for none
  manualDraggingIdx,     \* useState(-1): 0-based index, -1 for none
  manualDraggingHandle,  \* useState(null): "start" | "end" | "null"
  snapToGrid,            \* useState(true)
  useManualSchedule,     \* useState(true)
  calibrationParams,     \* useState({denseCh0, ..., ch1, feedSpeed})
  importedSteps,         \* useState(null): << >> stands for null
  importedMeta,          \* useState(null)
  toast,                 \* useState({visible, message, type})
  lastLog,               \* the newest entry of wsLogs
  wsOpen,                \* ws is a socket with readyState 1
  espIp,                 \* useState(""): the address typed for the device
  ws,                    \* useState(null): index into sockets, 0 stands for null
  wsStatus,              \* useState("disconnected"): | "connecting" | "connected"
  sockets,               \* readyState of every WebSocket connectWs has created
  sent,                  \* the newest message handed to ws.send
  exportData,            \* the newest object written by Export JSON
  points,                \* useState([]): control points of the path, in px
  imgData,               \* useState(null): the raster {width, height, data}
  mode,                  \* useState("PWM"): "PWM" | "AM" | "DITHER"
  widthMinMm,            \* useState(0.2), held in tenths of a mm
  widthMaxMm,            \* useState(1.0), held in tenths of a mm
  minSpacingMm,          \* useState(0.3): minimum droplet spacing in mm, a fraction
  fSignal,               \* useState([]): target intensity along the path
  gSignal,               \* useState([]): synthesized signal
  dropSchedule,          \* useState([]): {s_px, s_mm, t_ms, width_mm, amplitude}
  resampledPath,         \* useState([]): the uniformly resampled path
  call,                  \* arguments and result of a compiler call under test
  events,                \* number of user events handled so far
  lastOutcome            \* how the newest editor event ended: "none", "applied",
                         \* "overlap" (candidate rejected) or "noSlot" (nothing added)

vars == << manualSegments, manualTubeLengthCm, manualSelectedIdx, manualDraggingIdx,
           manualDraggingHandle, snapToGrid, useManualSchedule, calibrationParams,
           importedSteps, importedMeta, toast, lastLog, wsOpen, sent, exportData,
           espIp, ws, wsStatus, sockets,
           points, imgData, mode, widthMinMm, widthMaxMm, minSpacingMm, fSignal,
           gSignal, dropSchedule, resampledPath, call, events, lastOutcome >>

editorVars == << manualSegments, manualTubeLengthCm, manualSelectedIdx,
                 manualDraggingIdx, manualDraggingHandle, snapToGrid >>

patternVars == << useManualSchedule, calibrationParams, importedSteps, importedMeta,
                  toast, lastLog, wsOpen, sent, exportData >>

\* The device link: the address field, the socket the component holds, the
\* status it shows, and the sockets the browser has created for it.
linkVars == << espIp, ws, wsStatus, sockets >>

\* useState(null) of ws.
NoSocket == 0

synthVars == << points, imgData, mode, widthMinMm, widthMaxMm, minSpacingMm, fSignal,
                gSignal, dropSchedule, resampledPath >>

\* Segment i (0-based, as in the program) of arr.
At(arr, i) == arr[i + 1]

HasIdx(arr, i) == i >= 0 /\ i < Len(arr)

\* arr.filter((_, i) => i !== idx)
RemoveAt(arr, idx) ==
  IF HasIdx(arr, idx)
  THEN SubSeq(arr, 1, idx) \o SubSeq(arr, idx + 2, Len(arr))
  ELSE arr

\* arr.map((seg, i) => i === idx ? newSeg : seg)
ReplaceAt(arr, idx, newSeg) ==
  [k \in 1..Len(arr) |-> IF k = idx + 1 THEN newSeg ELSE arr[k]]

(***************************************************************************)
(* Direct Schedule Editor                                                  *)
(***************************************************************************)
\* Canvas pixels per centimetre at zoom 1.
pxPerCm == 40

\* Position units (tenths of a cm) per centimetre.
UnitsPerCm == 10

\* Canvas x of a tube position.
ToPx(pos) == (pos * pxPerCm) \div UnitsPerCm

\* x / pxPerCm as a tube position (pointer x values are multiples of 4 px).
ToPos(x) == (x * UnitsPerCm) \div pxPerCm

tubeY == 60

tubeRadius == 8

handleSize == 6

tolerance == 10

\* const minGap = snapToGrid ? 1 : 0.1;
MinGapOf(snap) == IF snap THEN UnitsPerCm ELSE 1

\* if (snapToGrid) position = Math.round(position);
SnapPos(pos, snap) == IF snap THEN UnitsPerCm * JsRound(pos, UnitsPerCm) ELSE pos

NoHit == [segmentIdx |-> -1, handle |-> "null"]

\* Twice handleSize / 2 + tolerance, to stay in integers.
HandleReach2 == handleSize + 2 * tolerance

InHandleBand(y) ==
  /\ y >= tubeY - tubeRadius - 5 - tolerance
  /\ y <= tubeY - tubeRadius - 5 + 10 + tolerance

InBodyBand(y) ==
  /\ y >= tubeY - tubeRadius - tolerance
  /\ y <= tubeY + tubeRadius + tolerance

\* The body of the loop of hitTestManualSegment for segment i (0-based),
\* falling through to i - 1.
RECURSIVE HitFrom(_, _, _, _, _, _)
HitFrom(arr, i, x, y, selectedIdx, tube) ==
  IF i < 0 THEN NoHit
  ELSE LET seg == At(arr, i)
           startX == ToPx(clamp(seg.startCm, 0, tube))
           endX == ToPx(clamp(seg.endCm, seg.startCm, tube))
       IN  IF /\ i = selectedIdx
              /\ 2 * x >= 2 * startX - HandleReach2
              /\ 2 * x <= 2 * startX + HandleReach2
              /\ InHandleBand(y)
           THEN [segmentIdx |-> i, handle |-> "start"]
           ELSE IF /\ i = selectedIdx
                   /\ 2 * x >= 2 * endX - HandleReach2
                   /\ 2 * x <= 2 * endX + HandleReach2
                   /\ InHandleBand(y)
           THEN [segmentIdx |-> i, handle |-> "end"]
           ELSE IF /\ x >= startX - tolerance
                   /\ x <= endX + tolerance
                   /\ InBodyBand(y)
           THEN [segmentIdx |-> i, handle |-> "null"]
           ELSE HitFrom(arr, i - 1, x, y, selectedIdx, tube)

hitTestManualSegment(arr, x, y, selectedIdx, tube) ==
  HitFrom(arr, Len(arr) - 1, x, y, selectedIdx, tube)

\* arr.some((otherSeg, otherIdx) => otherIdx !== i && segmentsOverlap(newSegment, otherSeg))
HasOverlap(arr, i, newSegment) ==
  \E k \in 1..Len(arr) : k # i + 1 /\ segmentsOverlap(newSegment, arr[k])

\* The candidate segment of onManualPointerMove for the dragged segment.
DragCandidate(seg, handle, newPosition, minGap, tube) ==
  IF handle = "start"
  THEN [seg EXCEPT !.startCm = Min2(newPosition, seg.endCm - minGap)]
  ELSE IF handle = "end"
  THEN [seg EXCEPT !.endCm = Min2(Max2(newPosition, seg.startCm + minGap), tube)]
  ELSE LET lengthCm == seg.endCm - seg.startCm
           newStartCm == Min2(newPosition, tube - lengthCm)
       IN  [seg EXCEPT !.startCm = newStartCm, !.endCm = newStartCm + lengthCm]

\* The update without the overlap check.
KeepOrTakeUnchecked(arr, i, newSegment) == ReplaceAt(arr, i, newSegment)

\* if (!hasOverlap) return newSegment; return seg;
KeepOrTake(arr, i, newSegment) ==
  IF HasOverlap(arr, i, newSegment) THEN arr ELSE ReplaceAt(arr, i, newSegment)

\* The updater passed to setManualSegments by onManualPointerMove.
DragUpdate(arr, idx, handle, newPosition, minGap, tube) ==
  IF HasIdx(arr, idx)
  THEN KeepOrTake(arr, idx, DragCandidate(At(arr, idx), handle, newPosition, minGap, tube))
  ELSE arr

\* The candidate of the Start Position onChange handler.
StartEditCandidate(seg, numValue, minGap) ==
  [seg EXCEPT !.startCm = Min2(numValue, seg.endCm - minGap)]

\* The candidate of the End Position onChange handler.
EndEditCandidate(seg, numValue, minGap, tube) ==
  [seg EXCEPT !.endCm = Min2(Max2(numValue, seg.startCm + minGap), tube)]

\* generateThirtyVerticalTubes: geometry constants.
tubeCount == 30

tubeLengthCm == 15 * UnitsPerCm

gapCm == 10 * UnitsPerCm

totalLengthCm == tubeCount * tubeLengthCm + (tubeCount - 1) * gapCm

\* The newSegments array built by generateThirtyVerticalTubes.
ThirtyTubes ==
  [i \in 1..tubeCount |->
     [startCm |-> (i - 1) * (tubeLengthCm + gapCm),
      endCm |-> (i - 1) * (tubeLengthCm + gapCm) + tubeLengthCm,
      densityLevel |-> 5]]

(***************************************************************************)
(* Bounds and input sets of the editor                                     *)
(***************************************************************************)
\* Clicks add segments only while fewer than MaxSegs exist.
MaxSegs == 2

\* Behaviours are followed for at most MaxEvents user events.
MaxEvents == 5

\* Pointer x (px) and y (px): y = 50 lies in the handle and the body band,
\* 70 in the body band only, 100 in neither.
PointerXs == {0, 20, 40, 60, 80}

PointerYs == {50, 70, 100}

\* Numbers typed into the Start / End Position fields (tenths of a cm).
NumericInputs == {-10, 0, 15, 40}

\* Numbers typed into the tube Length field (tenths of a cm).
TubeInputs == {0, 20}

DensityInputs == {1, 10}

\* The default density level of a new segment.
DefaultLevel == 5

\* const preferredLength = 1;
preferredLength == UnitsPerCm

\* Tube length limits of the Length field and its default on blur.
MinTube == 1 * UnitsPerCm

MaxTube == 1000 * UnitsPerCm

DefaultTube == 10 * UnitsPerCm

\* The model follows edits of segment sets of at most MaxSegs segments; the
\* 30 segment set of generateThirtyVerticalTubes is reached and inspected,
\* but not edited further.
Editable == Len(manualSegments) <= MaxSegs

\* onManualPointerDown on a segment or a handle: select and start dragging.
PointerDownHit(x, y) ==
  LET hit == hitTestManualSegment(manualSegments, x, y, manualSelectedIdx, manualTubeLengthCm)
  IN  /\ hit.segmentIdx >= 0
      /\ manualSelectedIdx' = hit.segmentIdx
      /\ manualDraggingIdx' = hit.segmentIdx
      /\ manualDraggingHandle' = hit.handle
      /\ lastOutcome' = "applied"
      /\ UNCHANGED << manualSegments, manualTubeLengthCm, snapToGrid >>

\* onManualPointerDown on empty area: add a 1 cm segment where it fits.
PointerDownAdd(x, y) ==
  LET hit == hitTestManualSegment(manualSegments, x, y, manualSelectedIdx, manualTubeLengthCm)
      preferredStart == SnapPos(clamp(ToPos(x), 0, manualTubeLengthCm), snapToGrid)
      availablePosition == findNextAvailablePosition(manualSegments, preferredStart,
                                                     preferredLength, manualTubeLengthCm)
  IN  /\ hit.segmentIdx < 0
      /\ Len(manualSegments) < MaxSegs
      /\ IF availablePosition.found
         THEN /\ manualSegments' = Append(manualSegments,
                     [startCm |-> availablePosition.startCm,
                      endCm |-> availablePosition.endCm,
                      densityLevel |-> DefaultLevel])
              /\ manualSelectedIdx' = Len(manualSegments)
              /\ manualDraggingIdx' = Len(manualSegments)
              /\ manualDraggingHandle' = "null"
         ELSE UNCHANGED << manualSegments, manualSelectedIdx, manualDraggingIdx,
                           manualDraggingHandle >>
      /\ lastOutcome' = IF availablePosition.found THEN "applied" ELSE "noSlot"
      /\ UNCHANGED << manualTubeLengthCm, snapToGrid >>

\* onManualPointerMove while a drag is in progress.
PointerMove(x) ==
  LET newPosition == SnapPos(clamp(ToPos(x), 0, manualTubeLengthCm), snapToGrid)
  IN  /\ manualDraggingIdx >= 0
      /\ Editable
      /\ manualSegments' = DragUpdate(manualSegments, manualDraggingIdx, manualDraggingHandle,
                                      newPosition, MinGapOf(snapToGrid), manualTubeLengthCm)
      /\ lastOutcome' = IF /\ HasIdx(manualSegments, manualDraggingIdx)
                         /\ HasOverlap(manualSegments, manualDraggingIdx,
                               DragCandidate(At(manualSegments, manualDraggingIdx),
                                  manualDraggingHandle, newPosition,
                                  MinGapOf(snapToGrid), manualTubeLengthCm))
                      THEN "overlap" ELSE "applied"
      /\ UNCHANGED << manualTubeLengthCm, manualSelectedIdx, manualDraggingIdx,
                      manualDraggingHandle, snapToGrid >>

\* onManualPointerUp
PointerUp ==
  /\ manualDraggingIdx >= 0
  /\ manualDraggingIdx' = -1
  /\ manualDraggingHandle' = "null"
  /\ lastOutcome' = "applied"
  /\ UNCHANGED << manualSegments, manualTubeLengthCm, manualSelectedIdx, snapToGrid >>

\* onManualContextMenu on a segment: remove it.
ContextMenu(x, y) ==
  LET hit == hitTestManualSegment(manualSegments, x, y, manualSelectedIdx, manualTubeLengthCm)
  IN  /\ hit.segmentIdx >= 0
      /\ Editable
      /\ manualSegments' = RemoveAt(manualSegments, hit.segmentIdx)
      /\ manualSelectedIdx' = -1
      /\ manualDraggingIdx' = -1
      /\ manualDraggingHandle' = "null"
      /\ lastOutcome' = "applied"
      /\ UNCHANGED << manualTubeLengthCm, snapToGrid >>

\* The keydown listener: Delete / Backspace outside a numeric field.
KeyDelete ==
  /\ manualSelectedIdx >= 0
  /\ Editable
  /\ manualSegments' = RemoveAt(manualSegments, manualSelectedIdx)
  /\ manualSelectedIdx' = -1
  /\ manualDraggingIdx' = -1
  /\ manualDraggingHandle' = "null"
  /\ lastOutcome' = "applied"
  /\ UNCHANGED << manualTubeLengthCm, snapToGrid >>

\* The segment editor panel is rendered for an existing selected segment.
PanelShown == HasIdx(manualSegments, manualSelectedIdx) /\ Editable

\* Start Position onChange with a parseable number.
StartChange(numValue) ==
  LET newSegment == StartEditCandidate(At(manualSegments, manualSelectedIdx), numValue,
                                       MinGapOf(snapToGrid))
  IN  /\ PanelShown
      /\ manualSegments' = KeepOrTake(manualSegments, manualSelectedIdx, newSegment)
      /\ lastOutcome' = IF HasOverlap(manualSegments, manualSelectedIdx, newSegment)
                      THEN "overlap" ELSE "applied"
      /\ UNCHANGED << manualTubeLengthCm, manualSelectedIdx, manualDraggingIdx,
                      manualDraggingHandle, snapToGrid >>

\* Start Position onBlur with an empty field.
StartBlurEmpty ==
  /\ PanelShown
  /\ manualSegments' = ReplaceAt(manualSegments, manualSelectedIdx,
         [At(manualSegments, manualSelectedIdx) EXCEPT !.startCm = 0])
  /\ lastOutcome' = "applied"
  /\ UNCHANGED << manualTubeLengthCm, manualSelectedIdx, manualDraggingIdx,
                  manualDraggingHandle, snapToGrid >>

\* End Position onChange with a parseable number.
EndChange(numValue) ==
  LET newSegment == EndEditCandidate(At(manualSegments, manualSelectedIdx), numValue,
                                     MinGapOf(snapToGrid), manualTubeLengthCm)
  IN  /\ PanelShown
      /\ manualSegments' = KeepOrTake(manualSegments, manualSelectedIdx, newSegment)
      /\ lastOutcome' = IF HasOverlap(manualSegments, manualSelectedIdx, newSegment)
                      THEN "overlap" ELSE "applied"
      /\ UNCHANGED << manualTubeLengthCm, manualSelectedIdx, manualDraggingIdx,
                      manualDraggingHandle, snapToGrid >>

\* End Position onBlur with an empty field.
EndBlurEmpty ==
  LET seg == At(manualSegments, manualSelectedIdx)
  IN  /\ PanelShown
      /\ manualSegments' = ReplaceAt(manualSegments, manualSelectedIdx,
             [seg EXCEPT !.endCm = seg.startCm + MinGapOf(snapToGrid)])
      /\ lastOutcome' = "applied"
      /\ UNCHANGED << manualTubeLengthCm, manualSelectedIdx, manualDraggingIdx,
                      manualDraggingHandle, snapToGrid >>

\* Density Level onChange.
DensityChange(newLevel) ==
  /\ PanelShown
  /\ manualSegments' = ReplaceAt(manualSegments, manualSelectedIdx,
         [At(manualSegments, manualSelectedIdx) EXCEPT !.densityLevel = newLevel])
  /\ lastOutcome' = "applied"
  /\ UNCHANGED << manualTubeLengthCm, manualSelectedIdx, manualDraggingIdx,
                  manualDraggingHandle, snapToGrid >>

\* The Delete Segment button.
DeleteButton ==
  /\ PanelShown
  /\ manualSegments' = RemoveAt(manualSegments, manualSelectedIdx)
  /\ manualSelectedIdx' = -1
  /\ lastOutcome' = "applied"
  /\ UNCHANGED << manualTubeLengthCm, manualDraggingIdx, manualDraggingHandle, snapToGrid >>

\* Tube Length onChange with a parseable number.
TubeLengthChange(numValue) ==
  /\ manualTubeLengthCm' = clamp(numValue, MinTube, MaxTube)
  /\ lastOutcome' = "applied"
  /\ UNCHANGED << manualSegments, manualSelectedIdx, manualDraggingIdx,
                  manualDraggingHandle, snapToGrid >>

\* Tube Length onBlur with an empty field.
TubeLengthBlurEmpty ==
  /\ manualTubeLengthCm' = DefaultTube
  /\ lastOutcome' = "applied"
  /\ UNCHANGED << manualSegments, manualSelectedIdx, manualDraggingIdx,
                  manualDraggingHandle, snapToGrid >>

\* The Snap to 1cm checkbox.
SnapToggle ==
  /\ snapToGrid' = ~snapToGrid
  /\ lastOutcome' = "applied"
  /\ UNCHANGED << manualSegments, manualTubeLengthCm, manualSelectedIdx,
                  manualDraggingIdx, manualDraggingHandle >>

\* generateThirtyVerticalTubes (its effect on the editor state).
GenerateThirtyTubes ==
  /\ manualTubeLengthCm' = totalLengthCm
  /\ manualSegments' = ThirtyTubes
  /\ manualSelectedIdx' = -1
  /\ lastOutcome' = "applied"
  /\ UNCHANGED << manualDraggingIdx, manualDraggingHandle, snapToGrid >>

(***************************************************************************)
(* Initial values (the useState arguments)                                 *)
(***************************************************************************)
\* const [feedSpeed, setFeedSpeed] = useState(...) seeds calibrationParams.feedSpeed.
InitialFeedSpeed == 800

InitialCalibration ==
  [denseCh0 |-> DENSE_PARAMS.ch0, denseDuration |-> DENSE_PARAMS.duration_base,
   sparseCh0 |-> SPARSE_PARAMS.ch0, sparseDuration |-> SPARSE_PARAMS.duration_base,
   ch1 |-> DENSE_PARAMS.ch1, feedSpeed |-> InitialFeedSpeed]

NullSteps == << >>

NullMeta == [name |-> "null", totalSteps |-> 0]

NoToast == [visible |-> FALSE, message |-> "", type |-> "info"]

NoMessage == [type |-> "none", steps |-> << >>]

NoExport == [written |-> FALSE]

NoCall == [pc |-> "idle"]

(***************************************************************************)
(* Numbers of the path sampler and the synthesizer.  The program computes  *)
(* in JavaScript numbers; the model computes the same expressions exactly, *)
(* as fractions n/d in lowest terms with d > 0.                            *)
(***************************************************************************)
RECURSIVE Gcd(_, _)
Gcd(a, b) == IF b = 0 THEN a ELSE Gcd(b, a % b)

\* The number n/d.
Rat(n, d) == LET g == Gcd(Abs(n), d) IN [n |-> n \div g, d |-> d \div g]

Zero == [n |-> 0, d |-> 1]

One == [n |-> 1, d |-> 1]

\* a + b
RAdd(a, b) ==
  LET g == Gcd(a.d, b.d)
  IN  Rat(a.n * (b.d \div g) + b.n * (a.d \div g), a.d * (b.d \div g))

\* a - b
RSub(a, b) == RAdd(a, [n |-> -b.n, d |-> b.d])

\* a * b
RMul(a, b) ==
  LET g1 == Gcd(Abs(a.n), b.d)
      g2 == Gcd(Abs(b.n), a.d)
  IN  [n |-> (a.n \div g1) * (b.n \div g2), d |-> (a.d \div g2) * (b.d \div g1)]

\* a / b for b # 0
RDiv(a, b) ==
  RMul(a, IF b.n < 0 THEN [n |-> -b.d, d |-> -b.n] ELSE [n |-> b.d, d |-> b.n])

\* a <= b
RLeq(a, b) == a.n * b.d <= b.n * a.d

\* clamp(v, 0, 1)
Clamp01(v) == IF RLeq(v, Zero) THEN Zero ELSE IF RLeq(One, v) THEN One ELSE v

(***************************************************************************)
(* Synthesis parameters (useState arguments no handler changes)            *)
(***************************************************************************)
\* useState(0.2): mm per pixel
mmPerPixel == Rat(1, 5)

\* useState(2): sampling step in px
sampleStepPx == 2

\* useState(0.5): dithering threshold
threshold == Rat(1, 2)

\* t_ms = (s_mm / feedSpeed) * 1000, with the feed speed of useState(80) in mm/s
TimeMs(s_mm) == RMul(RDiv(s_mm, Rat(InitialFeedSpeed, 10)), Rat(1000, 1))

(***************************************************************************)
(* Manual schedule -> dropSchedule integration (a React effect)            *)
(***************************************************************************)
\* One entry of `mapped`; positions are held in mm (tenths of a cm).
ManualDrop(seg, tube) ==
  LET startMm == clamp(seg.startCm, 0, Max2(0, tube))
      endMm == clamp(seg.endCm, startMm, Max2(0, tube))
      s_mm == Rat(startMm + endMm, 2)
  IN  [s_px |-> RDiv(s_mm, mmPerPixel), s_mm |-> s_mm, t_ms |-> TimeMs(s_mm),
       width_mm |-> Rat(endMm - startMm, 1),
       amplitude |-> Clamp01(Rat(seg.densityLevel, 10))]

\* mapped: one droplet per segment, in the order of the start positions.
ManualDrops(segs, tube) ==
  LET sorted == SortByStart(segs)
  IN  [k \in 1..Len(sorted) |-> ManualDrop(sorted[k], tube)]

\* The effect runs after a render in which one of its dependencies changed, and
\* returns at once when the manual schedule is off.
ManualScheduleEffect ==
  dropSchedule' =
    IF /\ useManualSchedule'
       /\ << useManualSchedule, manualSegments, manualTubeLengthCm >>'
            # << useManualSchedule, manualSegments, manualTubeLengthCm >>
    THEN ManualDrops(manualSegments', manualTubeLengthCm')
    ELSE dropSchedule

\* null imgData
NoRaster == [width |-> 0, height |-> 0, data |-> << >>]

\* A render that changes no input of recompute: only the manual effect may run.
RenderEffects ==
  /\ ManualScheduleEffect
  /\ UNCHANGED << points, imgData, mode, widthMinMm, widthMaxMm, minSpacingMm,
                  fSignal, gSignal, resampledPath >>

InitEditor ==
  /\ manualSegments = << >>
  /\ manualTubeLengthCm = DefaultTube
  /\ manualSelectedIdx = -1
  /\ manualDraggingIdx = -1
  /\ manualDraggingHandle = "null"
  /\ snapToGrid = TRUE

InitPattern ==
  /\ useManualSchedule = TRUE
  /\ calibrationParams = InitialCalibration
  /\ importedSteps = NullSteps
  /\ importedMeta = NullMeta
  /\ toast = NoToast
  /\ lastLog = ""
  /\ wsOpen = FALSE
  /\ espIp = ""
  /\ ws = NoSocket
  /\ wsStatus = "disconnected"
  /\ sockets = << >>
  /\ sent = NoMessage
  /\ exportData = NoExport

\* The synthesizer before any path or raster exists; the effects of the first
\* render have run.
InitSynth ==
  /\ points = << >>
  /\ imgData = NoRaster
  /\ mode = "PWM"
  /\ widthMinMm = 2
  /\ widthMaxMm = 10
  /\ minSpacingMm = Rat(3, 10)
  /\ fSignal = << >>
  /\ gSignal = << >>
  /\ dropSchedule = ManualDrops(manualSegments, manualTubeLengthCm)
  /\ resampledPath = << >>

Init ==
  /\ InitEditor
  /\ InitPattern
  /\ InitSynth
  /\ call = NoCall
  /\ events = 0
  /\ lastOutcome = "none"

(***************************************************************************)
(* The editor as a state machine                                           *)
(***************************************************************************)
\* One more user event, while the bound allows it.
Count ==
  /\ events < MaxEvents
  /\ events' = events + 1

\* An event of the editor leaves the rest of the application alone.
EditorOnly == Count /\ UNCHANGED << patternVars, linkVars, call >> /\ RenderEffects

Next ==
  \/ \E x \in PointerXs, y \in PointerYs : PointerDownHit(x, y) /\ EditorOnly
  \/ \E x \in PointerXs, y \in PointerYs : PointerDownAdd(x, y) /\ EditorOnly
  \/ \E x \in PointerXs : PointerMove(x) /\ EditorOnly
  \/ PointerUp /\ EditorOnly
  \/ \E x \in PointerXs, y \in PointerYs : ContextMenu(x, y) /\ EditorOnly
  \/ KeyDelete /\ EditorOnly
  \/ \E v \in NumericInputs : StartChange(v) /\ EditorOnly
  \/ StartBlurEmpty /\ EditorOnly
  \/ \E v \in NumericInputs : EndChange(v) /\ EditorOnly
  \/ EndBlurEmpty /\ EditorOnly
  \/ \E l \in DensityInputs : DensityChange(l) /\ EditorOnly
  \/ DeleteButton /\ EditorOnly
  \/ \E v \in TubeInputs : TubeLengthChange(v) /\ EditorOnly
  \/ TubeLengthBlurEmpty /\ EditorOnly
  \/ SnapToggle /\ EditorOnly
  \/ /\ GenerateThirtyTubes
     /\ Count
     /\ useManualSchedule' = TRUE
     /\ UNCHANGED << calibrationParams, importedSteps, importedMeta, toast, lastLog,
                     wsOpen, sent, exportData, linkVars, call >>
     /\ RenderEffects

Spec == Init /\ [][Next]_vars

(***************************************************************************)
(* The compiler as a function: calls of segmentsToEHDSteps on drawn inputs *)
(***************************************************************************)
\* Longest drawn segment array (besides the generated 30 tube array).
MaxCallSegs == 2

CallPositions == {0, 10, 50}

\* Density levels of drawn segments; -1 and 12 lie outside 1..10.
CallLevels == {-1, 1, 4, 10, 12}

CallSegmentPool ==
  { [startCm |-> s, endCm |-> e, densityLevel |-> l] :
      s \in CallPositions, e \in CallPositions, l \in CallLevels }

CallSegmentPoolOrdered == { seg \in CallSegmentPool : seg.startCm < seg.endCm }

RECURSIVE SeqsUpTo(_, _)
SeqsUpTo(S, n) ==
  IF n = 0 THEN { << >> }
  ELSE LET shorter == SeqsUpTo(S, n - 1)
       IN  shorter \cup { Append(q, e) : q \in { r \in shorter : Len(r) = n - 1 }, e \in S }

CallSegmentArrays == SeqsUpTo(CallSegmentPoolOrdered, MaxCallSegs) \cup { ThirtyTubes }

\* Feed speeds in tenths of a mm/s: 10, 3, 80 and -1 mm/s.
CallFeedSpeeds == {100, 30, 800, -10}

\* The maxSteps arguments the program passes (Export / sendPattern, import).
ExportMaxSteps == 50

ImportMaxSteps == 100

CallMaxSteps == {ExportMaxSteps, ImportMaxSteps}

CallCalibrations ==
  { NoCalibration,
    InitialCalibration,
    [InitialCalibration EXCEPT !.denseCh0 = 20, !.sparseCh0 = 90, !.ch1 = 40],
    [InitialCalibration EXCEPT !.denseCh0 = 150, !.sparseCh0 = -5, !.ch1 = 200] }

CallTubeLengths == {50, 150, totalLengthCm}

InitCompile ==
  /\ InitEditor
  /\ InitPattern
  /\ InitSynth
  /\ events = 0
  /\ lastOutcome = "none"
  /\ \E segs \in CallSegmentArrays, f \in CallFeedSpeeds, m \in CallMaxSteps,
        c \in CallCalibrations, t \in CallTubeLengths :
       call = [pc |-> "ready", segments |-> segs, feedSpeed |-> f, maxSteps |-> m,
               calibration |-> c, tubeLengthCm |-> t, steps |-> << >>]

\* One call of segmentsToEHDSteps.
Compile ==
  /\ call.pc = "ready"
  /\ call' = [call EXCEPT !.pc = "done",
                          !.steps = segmentsToEHDSteps(call.segments, call.feedSpeed,
                                        call.maxSteps, call.calibration, call.tubeLengthCm)]
  /\ UNCHANGED << editorVars, patternVars, linkVars, synthVars, events, lastOutcome >>

NextCompile == Compile

SpecCompile == InitCompile /\ [][NextCompile]_vars

(***************************************************************************)
(* Device link, calibration panel, export and import                       *)
(***************************************************************************)
\* The text of a number input: nothing typed, or a number.
EmptyText == [empty |-> TRUE]

\* parseInt(text) || fallback and parseFloat(text) || fallback: an empty text
\* parses to NaN and NaN and 0 are falsy.
ParseOr(text, fallback) ==
  IF text = EmptyText THEN fallback
  ELSE IF text.n = 0 THEN fallback ELSE text.n

\* 0.1 mm/s in tenths of a mm/s.
FeedSpeedFallback == 1

\* Texts typed into the calibration panel; the inputs' min and max attributes
\* do not stop a typed value.
DenseCh0Texts == { EmptyText, [n |-> 150] }

SparseCh0Texts == { [n |-> 0], [n |-> -5] }

Ch1Texts == { [n |-> 40], [n |-> 200] }

FeedSpeedTexts == { EmptyText, [n |-> -10] }

\* The number of events of a run.
MaxPatternEvents == 3

CountPattern ==
  /\ events < MaxPatternEvents
  /\ events' = events + 1

DenseCh0Change(text) ==
  /\ calibrationParams' = [calibrationParams EXCEPT !.denseCh0 = ParseOr(text, 0)]
  /\ UNCHANGED << useManualSchedule, importedSteps, importedMeta, toast, lastLog,
                  wsOpen, sent, exportData >>

SparseCh0Change(text) ==
  /\ calibrationParams' = [calibrationParams EXCEPT !.sparseCh0 = ParseOr(text, 0)]
  /\ UNCHANGED << useManualSchedule, importedSteps, importedMeta, toast, lastLog,
                  wsOpen, sent, exportData >>

Ch1Change(text) ==
  /\ calibrationParams' = [calibrationParams EXCEPT !.ch1 = ParseOr(text, 0)]
  /\ UNCHANGED << useManualSchedule, importedSteps, importedMeta, toast, lastLog,
                  wsOpen, sent, exportData >>

FeedSpeedChange(text) ==
  /\ calibrationParams' =
       [calibrationParams EXCEPT !.feedSpeed = ParseOr(text, FeedSpeedFallback)]
  /\ UNCHANGED << useManualSchedule, importedSteps, importedMeta, toast, lastLog,
                  wsOpen, sent, exportData >>

\* The "Use manual schedule" checkbox.
UseManualScheduleChange ==
  /\ useManualSchedule' = ~useManualSchedule
  /\ UNCHANGED << calibrationParams, importedSteps, importedMeta, toast, lastLog,
                  wsOpen, sent, exportData >>

\* triggerToast(message, type)
Toast(message, type) == [visible |-> TRUE, message |-> message, type |-> type]

\* The timer of triggerToast hides the toast.
ToastTimeout ==
  /\ toast.visible
  /\ toast' = [toast EXCEPT !.visible = FALSE]
  /\ UNCHANGED << useManualSchedule, calibrationParams, importedSteps, importedMeta,
                  lastLog, wsOpen, sent, exportData >>

\* socket.onopen of connectWs
SocketOpen ==
  /\ ~wsOpen
  /\ wsOpen' = TRUE
  /\ lastLog' = "WS connected"
  /\ toast' = Toast("Connected to device", "success")
  /\ UNCHANGED << useManualSchedule, calibrationParams, importedSteps, importedMeta,
                  sent, exportData >>

disconnectWs ==
  /\ wsOpen' = FALSE
  /\ toast' = Toast("Disconnected", "warning")
  /\ UNCHANGED << useManualSchedule, calibrationParams, importedSteps, importedMeta,
                  lastLog, sent, exportData >>

\* sendWs(obj): the newest log entry and the message handed to the socket.
sendWs(obj) ==
  IF ~wsOpen
  THEN lastLog' = "WS not connected" /\ sent' = sent
  ELSE sent' = obj /\ lastLog' = "TX"

\* A fallback taken from the droplet schedule: one firing step per droplet.
demoFromDroplets ==
  [k \in 1..Len(dropSchedule) |-> [ch0 |-> 80, ch1 |-> 70, duration |-> 1500]]

\* The demo pattern of sendPattern.
demo == << [ch0 |-> 80, ch1 |-> 70, duration |-> 1500],
           [ch0 |-> 73, ch1 |-> 70, duration |-> 2000] >>

SendMaxSteps == 50

\* The rest of sendPattern once the steps are compiled.
SendCompiled(steps) ==
  IF Len(steps) = 0
  THEN lastLog' = "No valid segments to send" /\ sent' = sent
  ELSE sendWs([type |-> "pattern", steps |-> steps])

sendPattern ==
  /\ IF ~useManualSchedule \/ Len(manualSegments) = 0
     THEN sendWs([type |-> "pattern", steps |-> demo])
     ELSE SendCompiled(segmentsToEHDSteps(manualSegments, calibrationParams.feedSpeed,
                         SendMaxSteps, calibrationParams, manualTubeLengthCm))
  /\ UNCHANGED << useManualSchedule, calibrationParams, importedSteps, importedMeta,
                  toast, wsOpen, exportData >>

\* The "Send Imported" button is disabled while there are no imported steps.
sendImportedPattern ==
  /\ importedSteps # NullSteps
  /\ sendWs([type |-> "pattern", steps |-> importedSteps])
  /\ UNCHANGED << useManualSchedule, calibrationParams, importedSteps, importedMeta,
                  toast, wsOpen, exportData >>

\* The Export JSON button, shown while the manual schedule is in use.
ExportJson ==
  /\ useManualSchedule
  /\ exportData' =
       [written |-> TRUE,
        tubeLengthCm |-> manualTubeLengthCm,
        segments |-> manualSegments,
        ehdSteps |-> segmentsToEHDSteps(manualSegments, calibrationParams.feedSpeed,
                       ExportMaxSteps, calibrationParams, manualTubeLengthCm),
        calibration |-> calibrationParams]
  /\ lastLog' = "Exported pattern"
  /\ UNCHANGED << useManualSchedule, calibrationParams, importedSteps, importedMeta,
                  toast, wsOpen, sent >>

\* JSON values: a key that is missing, a value that is no number, a number
\* [n |-> k], an array [array |-> seq], an object [object |-> record].
Absent == [absent |-> TRUE]

NotNumber == [text |-> TRUE]

NaN == [nan |-> TRUE]

IsFinite(v) == "n" \in DOMAIN v

\* Math.round(clamp(v ?? fallback, 0, 100))
NormalizeLevel(v, fallback) ==
  IF v = Absent THEN [n |-> clamp(fallback, 0, 100)]
  ELSE IF v = NotNumber THEN NaN
  ELSE [n |-> clamp(v.n, 0, 100)]

\* Math.round(Math.max(1, v ?? 0))
NormalizeDuration(v) ==
  IF v = Absent THEN [n |-> 1]
  ELSE IF ~IsFinite(v) THEN NaN
  ELSE [n |-> Max2(1, v.n)]

validateStep(s) ==
  /\ IsFinite(s.ch0) /\ s.ch0.n >= 0 /\ s.ch0.n <= 100
  /\ IsFinite(s.ch1) /\ s.ch1.n >= 0 /\ s.ch1.n <= 100
  /\ IsFinite(s.duration) /\ s.duration.n >= 1

\* A step of the compiler as a JSON object, and back.
StepJson(step) ==
  [ch0 |-> [n |-> step.ch0], ch1 |-> [n |-> step.ch1], duration |-> [n |-> step.duration]]

StepsJson(steps) == [k \in 1..Len(steps) |-> StepJson(steps[k])]

StepOf(s) == [ch0 |-> s.ch0.n, ch1 |-> s.ch1.n, duration |-> s.duration.n]

\* The default tube length of buildStepsFromSegments: 30 cm.
ImportTubeLength == 30 * UnitsPerCm

\* value ?? fallback, for a numeric field of a JSON object.
FieldOr(value, fallback) == IF value = Absent THEN fallback ELSE value.n

\* A calibration taken from the current one whatever the file holds.
FileCalibrationIgnored(json) == calibrationParams

\* calib = json?.calibration || calibrationParams with each field read as
\* calib?.field ?? calibrationParams.field.
FileCalibration(json) ==
  IF json.calibration = Absent THEN calibrationParams
  ELSE [denseCh0 |-> FieldOr(json.calibration.object.denseCh0, calibrationParams.denseCh0),
        denseDuration |-> FieldOr(json.calibration.object.denseDuration,
                                  calibrationParams.denseDuration),
        sparseCh0 |-> FieldOr(json.calibration.object.sparseCh0, calibrationParams.sparseCh0),
        sparseDuration |-> FieldOr(json.calibration.object.sparseDuration,
                                   calibrationParams.sparseDuration),
        ch1 |-> FieldOr(json.calibration.object.ch1, calibrationParams.ch1),
        feedSpeed |-> FieldOr(json.calibration.object.feedSpeed, calibrationParams.feedSpeed)]

\* A duration that is Infinity or NaN.
NotFinite == [infinite |-> TRUE]

\* Steps compiled at feed speed 0: every length (>= 0) divided by 0 gives an
\* Infinity or NaN duration, which Math.max(1000, .) keeps.
DividedByZero(steps) ==
  [k \in 1..Len(steps) |-> [steps[k] EXCEPT !.duration = NotFinite]]

\* The steps of buildStepsFromSegments as JSON objects.
CompiledFrom(segs, calib, tubeLength) ==
  IF calib.feedSpeed = 0 /\ segs # << >>
  THEN DividedByZero(StepsJson(segmentsToEHDSteps(segs, FeedSpeedFallback, ImportMaxSteps,
                                                   calib, tubeLength)))
  ELSE StepsJson(segmentsToEHDSteps(segs, calib.feedSpeed, ImportMaxSteps,
                                    calib, tubeLength))

buildStepsFromSegments(json) ==
  CompiledFrom(IF json.segments = Absent THEN << >> ELSE json.segments.array,
               FileCalibration(json),
               IF IsFinite(json.tubeLengthCm) THEN json.tubeLengthCm.n ELSE ImportTubeLength)

\* The candidate steps of a file: its `steps`, else its `generated.steps`,
\* else (or when that array is empty) the steps compiled from its segments.
CandidatesOf(json) ==
  LET direct == json.steps
      generated == json.generatedSteps
      listed == IF direct # Absent THEN direct.array
                ELSE IF generated # Absent THEN generated.array ELSE << >>
  IN  IF Len(listed) = 0 THEN buildStepsFromSegments(json) ELSE listed

NormalizeStep(s) ==
  [ch0 |-> NormalizeLevel(s.ch0, 0),
   ch1 |-> NormalizeLevel(s.ch1, calibrationParams.ch1),
   duration |-> NormalizeDuration(s.duration)]

Normalized(steps) == [k \in 1..Len(steps) |-> NormalizeStep(steps[k])]

StepsOf(valid) == [k \in 1..Len(valid) |-> StepOf(valid[k])]

extractStepsFromJson(json) ==
  StepsOf(SelectSeq(Normalized(CandidatesOf(json)), validateStep))

\* The catch branch of reader.onload: the text is no JSON.
ImportCatchResetting ==
  /\ toast' = Toast("JSON load failed", "error")
  /\ lastLog' = "Import error"
  /\ importedSteps' = NullSteps
  /\ importedMeta' = NullMeta

ImportCatch ==
  /\ toast' = Toast("JSON load failed", "error")
  /\ lastLog' = "Import error"
  /\ UNCHANGED << importedSteps, importedMeta >>

\* The try branch of reader.onload once the steps are extracted.
ImportExtracted(file, steps) ==
  IF Len(steps) = 0
  THEN /\ toast' = Toast("no valid steps found", "error")
       /\ lastLog' = "Import failed: no valid steps"
       /\ importedSteps' = NullSteps
       /\ importedMeta' = NullMeta
  ELSE /\ importedSteps' = steps
       /\ importedMeta' = [name |-> file.name, totalSteps |-> Len(steps)]
       /\ lastLog' = "Imported"
       /\ toast' = Toast("JSON loaded", "success")

\* reader.onload of handleImportJsonFile
handleImportJsonFile(file) ==
  /\ IF ~file.parseable
     THEN ImportCatch
     ELSE ImportExtracted(file, extractStepsFromJson(file.json))
  /\ UNCHANGED << useManualSchedule, calibrationParams, wsOpen, sent, exportData >>

\* reader.onerror of handleImportJsonFile
ReaderError ==
  /\ toast' = Toast("file read error", "error")
  /\ UNCHANGED << useManualSchedule, calibrationParams, importedSteps, importedMeta,
                  lastLog, wsOpen, sent, exportData >>

\* Candidate steps of imported files: in range, every field out of range,
\* no ch1, a ch0 that is no number.
InRangeStep == [ch0 |-> [n |-> 50], ch1 |-> [n |-> 70], duration |-> [n |-> 1000]]

OutOfRangeStep == [ch0 |-> [n |-> 150], ch1 |-> [n |-> -5], duration |-> [n |-> 0]]

NoCh1Step == [ch0 |-> [n |-> 80], ch1 |-> Absent, duration |-> [n |-> 4000]]

NoNumberStep == [ch0 |-> NotNumber, ch1 |-> [n |-> 70], duration |-> [n |-> 5000]]

\* The `steps` arrays of imported files.
FileStepLists ==
  { << >>,
    << InRangeStep >>,
    << OutOfRangeStep >>,
    << NoNumberStep >>,
    << InRangeStep, OutOfRangeStep >>,
    << NoCh1Step, InRangeStep >>,
    << NoNumberStep, InRangeStep, NoCh1Step >> }

EmptyJson ==
  [steps |-> Absent, generatedSteps |-> Absent, segments |-> Absent,
   tubeLengthCm |-> Absent, calibration |-> Absent]

\* A calibration object as written to a file.
CalibrationJson(c) ==
  [denseCh0 |-> [n |-> c.denseCh0], denseDuration |-> [n |-> c.denseDuration],
   sparseCh0 |-> [n |-> c.sparseCh0], sparseDuration |-> [n |-> c.sparseDuration],
   ch1 |-> [n |-> c.ch1], feedSpeed |-> [n |-> c.feedSpeed]]

\* JSON.parse(JSON.stringify(exportData)): the file has no `steps` key.
ExportedJson ==
  [EmptyJson EXCEPT !.segments = [array |-> exportData.segments],
                    !.tubeLengthCm = [n |-> exportData.tubeLengthCm],
                    !.calibration = [object |-> CalibrationJson(exportData.calibration)]]

StepFiles ==
  { [parseable |-> TRUE, name |-> "steps.json",
     json |-> [EmptyJson EXCEPT !.steps = [array |-> q]]] :
       q \in FileStepLists }

GeneratedFiles ==
  { [parseable |-> TRUE, name |-> "generated.json",
     json |-> [EmptyJson EXCEPT !.generatedSteps = [array |-> << NoCh1Step, InRangeStep >>]]] }

UnparsableFile == [parseable |-> FALSE, name |-> "broken.json"]

ExportedFiles ==
  IF exportData.written
  THEN { [parseable |-> TRUE, name |-> "tubedrop-pattern.json", json |-> ExportedJson] }
  ELSE { }

\* Hand-written files without a usable step list: segments with a full
\* calibration and a tube length; segments with an empty `steps` array, a
\* calibration that names denseCh0 only and no tube length; segments with a
\* calibration of feed speed 0.
FileSegments == << [startCm |-> 10, endCm |-> 50, densityLevel |-> 10] >>

NoCalibrationFields ==
  [denseCh0 |-> Absent, denseDuration |-> Absent, sparseCh0 |-> Absent,
   sparseDuration |-> Absent, ch1 |-> Absent, feedSpeed |-> Absent]

SegmentFiles ==
  { [parseable |-> TRUE, name |-> "segments.json",
     json |-> [EmptyJson EXCEPT
                 !.segments = [array |-> FileSegments],
                 !.tubeLengthCm = [n |-> 150],
                 !.calibration = [object |-> CalibrationJson(
                     [InitialCalibration EXCEPT !.denseCh0 = 20, !.sparseCh0 = 90,
                                                !.ch1 = 40, !.feedSpeed = 100])]]],
    [parseable |-> TRUE, name |-> "partial.json",
     json |-> [EmptyJson EXCEPT
                 !.steps = [array |-> << >>],
                 !.segments = [array |-> FileSegments],
                 !.calibration = [object |-> [NoCalibrationFields EXCEPT
                                                !.denseCh0 = [n |-> 150]]]]],
    [parseable |-> TRUE, name |-> "stalled.json",
     json |-> [EmptyJson EXCEPT
                 !.segments = [array |-> FileSegments],
                 !.calibration = [object |-> [NoCalibrationFields EXCEPT
                                                !.feedSpeed = [n |-> 0]]]]] }

ImportFiles ==
  StepFiles \cup GeneratedFiles \cup SegmentFiles \cup ExportedFiles \cup { UnparsableFile }

\* Editor states a run starts from: nothing drawn, one or two segments.
PatternEditorStates ==
  { [segments |-> << >>, tube |-> DefaultTube],
    [segments |-> << [startCm |-> 0, endCm |-> 50, densityLevel |-> 10] >>, tube |-> 150],
    [segments |-> << [startCm |-> 10, endCm |-> 50, densityLevel |-> 1],
                     [startCm |-> 60, endCm |-> 100, densityLevel |-> 10] >>, tube |-> 150] }

InitPatternRun ==
  /\ \E e \in PatternEditorStates :
       /\ manualSegments = e.segments
       /\ manualTubeLengthCm = e.tube
  /\ manualSelectedIdx = -1
  /\ manualDraggingIdx = -1
  /\ manualDraggingHandle = "null"
  /\ snapToGrid = TRUE
  /\ InitPattern
  /\ InitSynth
  /\ call = NoCall
  /\ events = 0
  /\ lastOutcome = "none"

PatternOnly ==
  CountPattern /\ UNCHANGED << editorVars, linkVars, call, lastOutcome >> /\ RenderEffects

\* generateThirtyVerticalTubes as a whole.
GenerateForPattern ==
  /\ GenerateThirtyTubes
  /\ useManualSchedule' = TRUE
  /\ CountPattern
  /\ UNCHANGED << calibrationParams, importedSteps, importedMeta, toast, lastLog,
                  wsOpen, sent, exportData, linkVars, call >>
  /\ RenderEffects

NextPattern ==
  \/ \E text \in DenseCh0Texts : DenseCh0Change(text) /\ PatternOnly
  \/ \E text \in SparseCh0Texts : SparseCh0Change(text) /\ PatternOnly
  \/ \E text \in Ch1Texts : Ch1Change(text) /\ PatternOnly
  \/ \E text \in FeedSpeedTexts : FeedSpeedChange(text) /\ PatternOnly
  \/ UseManualScheduleChange /\ PatternOnly
  \/ ToastTimeout /\ PatternOnly
  \/ SocketOpen /\ PatternOnly
  \/ disconnectWs /\ PatternOnly
  \/ sendPattern /\ PatternOnly
  \/ sendImportedPattern /\ PatternOnly
  \/ ExportJson /\ PatternOnly
  \/ \E file \in ImportFiles : handleImportJsonFile(file) /\ PatternOnly
  \/ ReaderError /\ PatternOnly
  \/ GenerateForPattern

SpecPattern == InitPatternRun /\ [][NextPattern]_vars

(***************************************************************************)
(* Path sampling: Catmull-Rom smoothing and uniform resampling             *)
(***************************************************************************)
\* sampleCatmullRom(points, 24)
samplesPerSegment == 24

\* Control points are whole pixels.  With t = j/24 every coordinate of the
\* smoothed path is a multiple of 1/(2 * 24^3) px: sampled points are held in
\* these sub-pixel units.
SubPx == 2 * samplesPerSegment * samplesPerSegment * samplesPerSegment

ToSubPx(p) == [x |-> p.x * SubPx, y |-> p.y * SubPx]

\* One coordinate of catmullRom(p0, p1, p2, p3, j/24), in sub-pixel units.
CatmullCoord(c0, c1, c2, c3, j) ==
    (2 * c1) * (SubPx \div 2)
  + (c2 - c0) * j * samplesPerSegment * samplesPerSegment
  + (2 * c0 - 5 * c1 + 4 * c2 - c3) * j * j * samplesPerSegment
  + (3 * c1 - c0 - 3 * c2 + c3) * j * j * j

catmullRom(p0, p1, p2, p3, j) ==
  [x |-> CatmullCoord(p0.x, p1.x, p2.x, p3.x, j),
   y |-> CatmullCoord(p0.y, p1.y, p2.y, p3.y, j)]

sampleCatmullRom(pts) ==
  LET n == Len(pts)
      last == (n - 1) * samplesPerSegment + 1
  IN  IF n < 2 THEN [k \in 1..n |-> ToSubPx(pts[k])]
      ELSE [k \in 1..last |->
              IF k = last THEN ToSubPx(pts[n])
              ELSE LET i == (k - 1) \div samplesPerSegment + 1
                   IN  catmullRom(pts[IF i = 1 THEN 1 ELSE i - 1], pts[i], pts[i + 1],
                                  pts[IF i + 2 <= n THEN i + 2 ELSE n],
                                  (k - 1) % samplesPerSegment)]

\* Math.hypot(a.x - b.x, a.y - b.y), for the point pairs of the model, whose
\* distance is a whole number of units.
dist(a, b) ==
  LET dx == Abs(a.x - b.x)
      dy == Abs(a.y - b.y)
  IN  IF dy = 0 THEN dx
      ELSE IF dx = 0 THEN dy
      ELSE CHOOSE h \in 0..(dx + dy) : h * h = dx * dx + dy * dy

\* lerp(a, b, t / segLen) for one coordinate
lerp(a, b, t, segLen) == a + ((b - a) * t) \div segLen

\* The points the while loop pushes on the segment from a to b: one at every
\* t = t0, t0 + stepPx, ... that is <= segLen.
AlongSegment(a, b, segLen, t0, stepPx) ==
  IF t0 > segLen THEN << >>
  ELSE [k \in 1..((segLen - t0) \div stepPx + 1) |->
          [x |-> lerp(a.x, b.x, t0 + (k - 1) * stepPx, segLen),
           y |-> lerp(a.y, b.y, t0 + (k - 1) * stepPx, segLen)]]

\* The for loop with the remainder dropped at every segment join.
RECURSIVE ResampleFromRestarting(_, _, _, _, _)
ResampleFromRestarting(pts, stepPx, i, acc, out) ==
  IF i > Len(pts) THEN out
  ELSE ResampleFromRestarting(pts, stepPx, i + 1, 0,
                              out \o AlongSegment(pts[i - 1], pts[i], dist(pts[i - 1], pts[i]),
                                                  stepPx, stepPx))

\* The for loop of resampleUniform from index i (1-based) with remainder acc.
RECURSIVE ResampleFrom(_, _, _, _, _)
ResampleFrom(pts, stepPx, i, acc, out) ==
  IF i > Len(pts) THEN out
  ELSE ResampleFrom(pts, stepPx, i + 1, (dist(pts[i - 1], pts[i]) + acc) % stepPx,
                    out \o AlongSegment(pts[i - 1], pts[i], dist(pts[i - 1], pts[i]),
                                        stepPx - acc, stepPx))

\* resampleUniform closed with the last point of the polyline.
resampleUniformClosed(pts, stepPx) ==
  IF pts = << >> THEN << >>
  ELSE Append(ResampleFrom(pts, stepPx, 2, 0, << pts[1] >>), pts[Len(pts)])

resampleUniform(pts, stepPx) ==
  IF pts = << >> THEN << >> ELSE ResampleFrom(pts, stepPx, 2, 0, << pts[1] >>)

(***************************************************************************)
(* Intensity sampling                                                      *)
(***************************************************************************)
\* Math.floor(v) for v in sub-pixel units, without the clamp.
PixelCoordUnclamped(v, size) == v \div SubPx

\* Math.floor(clamp(v, 0, size - 1)) for v in sub-pixel units
PixelCoord(v, size) == clamp(v, 0, (size - 1) * SubPx) \div SubPx

\* idx of grayscaleAt
PixelIndex(imageData, x, y) ==
  (PixelCoord(y, imageData.height) * imageData.width + PixelCoord(x, imageData.width)) * 4

\* data[i], 0-based; a read past the array gives undefined.
DataAt(data, i) == IF i >= 0 /\ i < Len(data) THEN [n |-> data[i + 1]] ELSE Absent

grayscaleAt(imageData, x, y) ==
  LET idx == PixelIndex(imageData, x, y)
      r == DataAt(imageData.data, idx)
      g == DataAt(imageData.data, idx + 1)
      b == DataAt(imageData.data, idx + 2)
  IN  IF Absent \in {r, g, b} THEN NaN
      ELSE Rat(299 * r.n + 587 * g.n + 114 * b.n, 255000)

\* f = uniform.map((p) => 1 - grayscaleAt(imgData, p.x, p.y))
Intensities(imageData, uniform) ==
  [k \in 1..Len(uniform) |->
     LET gray == grayscaleAt(imageData, uniform[k].x, uniform[k].y)
     IN  IF gray = NaN THEN NaN ELSE RSub(One, gray)]

(***************************************************************************)
(* recompute: PWM, AM and DITHER synthesis                                 *)
(***************************************************************************)
\* minSpacingPx = minSpacingMm / mmPerPixel
minSpacingPx == RDiv(minSpacingMm, mmPerPixel)

\* stepIdx = Math.max(1, Math.round(Math.max(minSpacingPx, sampleStepPx) / sampleStepPx));
\* no handler sets minSpacingMm, so the value is that of the state recompute starts in.
stepIdx ==
  LET stepPx == IF RLeq(Rat(sampleStepPx, 1), minSpacingPx)
                THEN minSpacingPx ELSE Rat(sampleStepPx, 1)
      q == RDiv(stepPx, Rat(sampleStepPx, 1))
  IN  Max2(1, JsRound(q.n, q.d))

\* The droplet pushed at sample i (0-based).
Drop(i, width_mm, amplitude) ==
  LET s_mm == RMul(Rat(i * sampleStepPx, 1), mmPerPixel)
  IN  [s_px |-> Rat(i * sampleStepPx, 1), s_mm |-> s_mm, t_ms |-> TimeMs(s_mm),
       width_mm |-> width_mm, amplitude |-> amplitude]

\* The samples i = 0, stepIdx, 2 * stepIdx, ... as 1-based indices, in order.
RECURSIVE EmittedFrom(_, _)
EmittedFrom(i, n) == IF i >= n THEN << >> ELSE << i + 1 >> \o EmittedFrom(i + stepIdx, n)

\* widthMaxPx - widthMinPx, negative when the minimum is above the maximum.
widthRangeSigned(wMin, wMax) ==
  RSub(RDiv(Rat(wMax, 10), mmPerPixel), RDiv(Rat(wMin, 10), mmPerPixel))

\* widthRangePx = Math.max(0, widthMaxPx - widthMinPx)
widthRangePx(wMin, wMax) ==
  LET range == RSub(RDiv(Rat(wMax, 10), mmPerPixel), RDiv(Rat(wMin, 10), mmPerPixel))
  IN  IF RLeq(range, Zero) THEN Zero ELSE range

\* wpx of the PWM branch
PwmWidthPx(v, wMin, wMax) ==
  RAdd(RDiv(Rat(wMin, 10), mmPerPixel), RMul(v, widthRangePx(wMin, wMax)))

PwmBranch(f, wMin, wMax) ==
  LET at == EmittedFrom(0, Len(f))
  IN  [drops |-> [k \in 1..Len(at) |->
                    Drop(at[k] - 1,
                         RMul(PwmWidthPx(Clamp01(f[at[k]]), wMin, wMax), mmPerPixel), One)],
       g |-> [k \in 1..Len(f) |->
                IF (k - 1) % stepIdx = 0 /\ widthRangePx(wMin, wMax) # Zero
                THEN RDiv(RSub(PwmWidthPx(Clamp01(f[k]), wMin, wMax),
                               RDiv(Rat(wMin, 10), mmPerPixel)),
                          widthRangePx(wMin, wMax))
                ELSE Zero]]

\* w0mm = 0.5 * (widthMinMm + widthMaxMm)
w0mm(wMin, wMax) == Rat(wMin + wMax, 20)

\* AM with every droplet at full amplitude.
AmBranchFullAmplitude(f, wMin, wMax) ==
  LET at == EmittedFrom(0, Len(f))
  IN  [drops |-> [k \in 1..Len(at) |-> Drop(at[k] - 1, w0mm(wMin, wMax), One)],
       g |-> [k \in 1..Len(f) |->
                IF (k - 1) % stepIdx = 0 THEN Clamp01(f[k]) ELSE Zero]]

AmBranch(f, wMin, wMax) ==
  LET at == EmittedFrom(0, Len(f))
  IN  [drops |-> [k \in 1..Len(at) |->
                    Drop(at[k] - 1, w0mm(wMin, wMax), Clamp01(f[at[k]]))],
       g |-> [k \in 1..Len(f) |->
                IF (k - 1) % stepIdx = 0 THEN Clamp01(f[k]) ELSE Zero]]

\* weights = [7/16, 5/16, 3/16, 1/16]
weights == << Rat(7, 16), Rat(5, 16), Rat(3, 16), Rat(1, 16) >>

\* The quantized output of a diffused value.
Quantize(v) == IF RLeq(threshold, v) THEN 1 ELSE 0

\* The DITHER loop with a droplet at every sample quantized to 1.
RECURSIVE DitherFromEverySample(_, _, _, _, _)
DitherFromEverySample(fCopy, i, g, drops, w0) ==
  IF i > Len(fCopy) THEN [drops |-> drops, g |-> g]
  ELSE DitherFromEverySample(
         [k \in 1..Len(fCopy) |->
            IF k > i /\ k <= i + 4
            THEN RAdd(fCopy[k],
                      RMul(RSub(Clamp01(fCopy[i]), Rat(Quantize(Clamp01(fCopy[i])), 1)),
                           weights[k - i]))
            ELSE fCopy[k]],
         i + 1,
         Append(g, Rat(Quantize(Clamp01(fCopy[i])), 1)),
         IF Quantize(Clamp01(fCopy[i])) > 0
         THEN Append(drops, Drop(i - 1, w0, One)) ELSE drops,
         w0)

\* The for loop of the DITHER branch from sample i (1-based).
RECURSIVE DitherFrom(_, _, _, _, _)
DitherFrom(fCopy, i, g, drops, w0) ==
  IF i > Len(fCopy) THEN [drops |-> drops, g |-> g]
  ELSE DitherFrom(
         [k \in 1..Len(fCopy) |->
            IF k > i /\ k <= i + 4
            THEN RAdd(fCopy[k],
                      RMul(RSub(Clamp01(fCopy[i]), Rat(Quantize(Clamp01(fCopy[i])), 1)),
                           weights[k - i]))
            ELSE fCopy[k]],
         i + 1,
         Append(g, Rat(Quantize(Clamp01(fCopy[i])), 1)),
         IF (i - 1) % stepIdx = 0 /\ Quantize(Clamp01(fCopy[i])) > 0
         THEN Append(drops, Drop(i - 1, w0, One)) ELSE drops,
         w0)

\* drops and g of recompute for the target signal f.
Synthesize(f, m, wMin, wMax) ==
  IF m = "PWM" THEN PwmBranch(f, wMin, wMax)
  ELSE IF m = "AM" THEN AmBranch(f, wMin, wMax)
  ELSE IF m = "DITHER" THEN DitherFrom(f, 1, << >>, << >>, w0mm(wMin, wMax))
  ELSE [drops |-> << >>, g |-> [k \in 1..Len(f) |-> Zero]]

\* uniform of recompute
Uniform(pts) == resampleUniform(sampleCatmullRom(pts), Max2(1, sampleStepPx) * SubPx)

\* The early return with every output cleared, the droplet schedule included.
ClearOutputsAlways ==
  /\ fSignal' = << >>
  /\ gSignal' = << >>
  /\ dropSchedule' = << >>
  /\ resampledPath' = << >>

\* The early return of recompute: dropSchedule is not cleared while the manual
\* schedule is in use.
ClearOutputs ==
  /\ fSignal' = << >>
  /\ gSignal' = << >>
  /\ dropSchedule' = IF ~useManualSchedule' THEN << >> ELSE dropSchedule
  /\ resampledPath' = << >>

\* recompute, run by its effect after a render that changed points or imgData.
recompute ==
  IF imgData' = NoRaster \/ Len(points') < 2
  THEN ClearOutputs
  ELSE \E uniform \in {Uniform(points')} :
       \E f \in {Intensities(imgData', uniform)} :
       \E out \in {Synthesize(f, mode', widthMinMm', widthMaxMm')} :
         /\ resampledPath' = uniform
         /\ fSignal' = f
         /\ gSignal' = out.g
         /\ dropSchedule' = IF ~useManualSchedule' THEN out.drops ELSE dropSchedule

\* Bound of the model: the longest path.
MaxPoints == 2

PointXs == {0, 4}

PointYs == {0, 1}

\* A click in path view adds a control point; the paths of the model are
\* horizontal, which keeps every distance a whole number of sub-pixel units.
AddPoint(x, y) ==
  /\ Len(points) < MaxPoints
  /\ \A k \in 1..Len(points) : points[k].y = y
  /\ points' = Append(points, [x |-> x, y |-> y])
  /\ UNCHANGED << imgData, mode, widthMinMm, widthMaxMm, minSpacingMm >>
  /\ UNCHANGED << editorVars, patternVars, linkVars, call, events, lastOutcome >>
  /\ recompute

\* Delete in pattern mode resets the path.
ClearPoints ==
  /\ points # << >>
  /\ points' = << >>
  /\ UNCHANGED << imgData, mode, widthMinMm, widthMaxMm, minSpacingMm >>
  /\ UNCHANGED << editorVars, patternVars, linkVars, call, events, lastOutcome >>
  /\ recompute

\* A raster of gray pixels (r = g = b, alpha 255), row by row.
GrayRaster(w, h, grays) ==
  [width |-> w, height |-> h,
   data |-> [i \in 1..(4 * w * h) |-> IF i % 4 = 0 THEN 255 ELSE grays[(i - 1) \div 4 + 1]]]

Rasters ==
  { GrayRaster(4, 2, << 128, 128, 128, 128, 131, 131, 131, 131 >>),
    GrayRaster(4, 2, << 255, 170, 85, 0, 0, 51, 102, 255 >>) }

\* The content effect stores a new raster.
SetImgData(raster) ==
  /\ imgData # raster
  /\ imgData' = raster
  /\ UNCHANGED << points, mode, widthMinMm, widthMaxMm, minSpacingMm >>
  /\ UNCHANGED << editorVars, patternVars, linkVars, call, events, lastOutcome >>
  /\ recompute

\* An event of the device panel, in a run of the synthesizer.
SynthPanel ==
  UNCHANGED << editorVars, linkVars, call, events, lastOutcome >> /\ RenderEffects

Modes == {"PWM", "AM", "DITHER"}

\* widthMinMm and widthMaxMm in tenths of a mm: the defaults, equal widths, and
\* a minimum above the maximum.
WidthSettings == { << 2, 10 >>, << 10, 10 >>, << 10, 2 >> }

\* Parameter settings of a run: every mode and width setting at the default
\* spacing of 0.3 mm (1.5 px), and every mode at the default widths with a
\* spacing of 0.56 mm (2.8 px) and of 0.8 mm (4 px).
SynthSettings ==
  { [mode |-> m, widths |-> w, minSpacingMm |-> Rat(3, 10)] : m \in Modes, w \in WidthSettings }
    \cup { [mode |-> m, widths |-> << 2, 10 >>, minSpacingMm |-> sp] :
             m \in Modes, sp \in { Rat(14, 25), Rat(4, 5) } }

SynthEditorStates ==
  { [segments |-> << >>, tube |-> DefaultTube],
    [segments |-> << [startCm |-> 10, endCm |-> 30, densityLevel |-> 5] >>,
     tube |-> DefaultTube] }

InitSynthRun ==
  /\ \E e \in SynthEditorStates :
       /\ manualSegments = e.segments
       /\ manualTubeLengthCm = e.tube
  /\ manualSelectedIdx = -1
  /\ manualDraggingIdx = -1
  /\ manualDraggingHandle = "null"
  /\ snapToGrid = TRUE
  /\ InitPattern
  /\ points = << >>
  /\ imgData = NoRaster
  /\ \E setting \in SynthSettings :
       /\ mode = setting.mode
       /\ widthMinMm = setting.widths[1]
       /\ widthMaxMm = setting.widths[2]
       /\ minSpacingMm = setting.minSpacingMm
  /\ fSignal = << >>
  /\ gSignal = << >>
  /\ dropSchedule = ManualDrops(manualSegments, manualTubeLengthCm)
  /\ resampledPath = << >>
  /\ call = NoCall
  /\ events = 0
  /\ lastOutcome = "none"

NextSynth ==
  \/ \E x \in PointXs, y \in PointYs : AddPoint(x, y)
  \/ ClearPoints
  \/ \E raster \in Rasters : SetImgData(raster)
  \/ UseManualScheduleChange /\ SynthPanel
  \/ SocketOpen /\ SynthPanel
  \/ sendPattern /\ SynthPanel

SpecSynth == InitSynthRun /\ [][NextSynth]_vars

(***************************************************************************)
(* The samplers as functions: calls of resampleUniform and grayscaleAt     *)
(***************************************************************************)
\* Bound of the model: the longest segment, in units of its direction vector.
MaxLength == 5

SegmentStarts == { [x |-> 0, y |-> 0], [x |-> 7, y |-> -3] }

\* Direction vectors << dx, dy, length >> of whole-number length; resampleUniform
\* has no unit of its own, and coordinates along these directions stay whole.
Directions ==
  { << 1, 0, 1 >>, << -1, 0, 1 >>, << 0, 1, 1 >>, << 0, -1, 1 >>,
    << 3, 4, 5 >>, << -4, 3, 5 >> }

\* Steps, as multiples of the length of the direction vector.
StepFactors == {1, 2, 3}

ResampleCalls ==
  { [pc |-> "ready", op |-> "resampleUniform",
     pts |-> << a, [x |-> a.x + d[1] * len, y |-> a.y + d[2] * len] >>,
     stepPx |-> d[3] * s, out |-> << >>] :
      a \in SegmentStarts, d \in Directions, len \in 0..MaxLength, s \in StepFactors }

\* A 3 x 2 raster whose six pixels all differ, and a raster of one pixel.
CallRasters ==
  { [width |-> 3, height |-> 2,
     data |-> [i \in 1..24 |->
                 LET p == (i - 1) \div 4
                 IN  IF i % 4 = 1 THEN 10 * p
                     ELSE IF i % 4 = 2 THEN 20 * p + 1
                     ELSE IF i % 4 = 3 THEN 30 * p + 2
                     ELSE 255]],
    [width |-> 1, height |-> 1, data |-> << 200, 100, 50, 255 >>] }

\* Sampling coordinates in sub-pixel units: left of, on, between and past the pixels.
CallCoords ==
  { -5 * SubPx, -1, 0, 1, SubPx \div 2, SubPx - 1, SubPx, SubPx + SubPx \div 3,
    2 * SubPx, 2 * SubPx + 1, 3 * SubPx, 40 * SubPx }

\* Direction vectors of length 5 for polylines: with every segment length
\* and every step a multiple of 5 the resampled coordinates stay whole.
PolyDirections == { << 5, 0, 5 >>, << 0, -5, 5 >>, << 3, 4, 5 >>, << -4, 3, 5 >> }

\* Segment lengths of polylines, in units of the direction vector.
PolyLengths == {0, 1, 2, 3}

PolySteps == {5, 10, 15}

\* The point reached from a along direction d over len units.
Ahead(a, d, len) == [x |-> a.x + d[1] * len, y |-> a.y + d[2] * len]

\* Polylines from the origin with 0, 2 and 3 segments.
Polylines ==
  LET o == [x |-> 0, y |-> 0]
      legs == PolyDirections \X PolyLengths
  IN  { << o >> }
        \cup { << o, Ahead(o, l1[1], l1[2]), Ahead(Ahead(o, l1[1], l1[2]), l2[1], l2[2]) >> :
                 l1 \in legs, l2 \in legs }
        \cup { << o, Ahead(o, l1[1], l1[2]), Ahead(Ahead(o, l1[1], l1[2]), l2[1], l2[2]),
                  Ahead(Ahead(Ahead(o, l1[1], l1[2]), l2[1], l2[2]), l3[1], l3[2]) >> :
                 l1 \in legs, l2 \in legs, l3 \in legs }

PolylineCalls ==
  { [pc |-> "ready", op |-> "resampleUniform", pts |-> pts, stepPx |-> s, out |-> << >>] :
      pts \in Polylines, s \in PolySteps }

GrayscaleCalls ==
  { [pc |-> "ready", op |-> "grayscaleAt", imageData |-> r, x |-> x, y |-> y,
     idx |-> 0, out |-> Zero] :
      r \in CallRasters, x \in CallCoords, y \in CallCoords }

InitSampling ==
  /\ InitEditor
  /\ InitPattern
  /\ InitSynth
  /\ events = 0
  /\ lastOutcome = "none"
  /\ call \in ResampleCalls \cup PolylineCalls \cup GrayscaleCalls

\* One call of resampleUniform.
ResampleCall ==
  /\ call.pc = "ready"
  /\ call.op = "resampleUniform"
  /\ call' = [call EXCEPT !.pc = "done", !.out = resampleUniform(call.pts, call.stepPx)]
  /\ UNCHANGED << editorVars, patternVars, linkVars, synthVars, events, lastOutcome >>

\* One call of grayscaleAt; idx is the index it reads the red channel at.
GrayscaleCall ==
  /\ call.pc = "ready"
  /\ call.op = "grayscaleAt"
  /\ call' = [call EXCEPT !.pc = "done",
                          !.idx = PixelIndex(call.imageData, call.x, call.y),
                          !.out = grayscaleAt(call.imageData, call.x, call.y)]
  /\ UNCHANGED << editorVars, patternVars, linkVars, synthVars, events, lastOutcome >>

NextSampling == ResampleCall \/ GrayscaleCall

SpecSampling == InitSampling /\ [][NextSampling]_vars

(***************************************************************************)
(* The placement helpers as functions: calls of segmentsOverlap and        *)
(* findNextAvailablePosition on drawn inputs                               *)
(***************************************************************************)
\* Interval ends of the drawn pairs (tenths of a cm): 0, 4, 5 and 10 cm.
OverlapEnds == {0, 40, 50, 100}

\* Every pair of ends, in either order and equal.
OverlapIntervals == { [startCm |-> s, endCm |-> e] : s \in OverlapEnds, e \in OverlapEnds }

OverlapCalls ==
  { [pc |-> "ready", op |-> "segmentsOverlap", seg1 |-> a, seg2 |-> b, out |-> FALSE] :
      a \in OverlapIntervals, b \in OverlapIntervals }

\* Longest drawn array of existing segments.
MaxPlaced == 2

PlacedEnds == {0, 10, 20, 25, 35}

\* Existing segments with start < end; arrays of them in every order, also
\* overlapping ones and ones that reach past the drawn tube lengths (the tube
\* Length field shrinks the tube under the segments).
PlacedSegments ==
  { seg \in { [startCm |-> s, endCm |-> e, densityLevel |-> DefaultLevel] :
                s \in PlacedEnds, e \in PlacedEnds } : seg.startCm < seg.endCm }

PreferredStarts == {0, 10, 15, 25}

PreferredLengths == {preferredLength, 2 * preferredLength}

PlacementTubes == {15, 30, 40}

PlacementCalls ==
  { [pc |-> "ready", op |-> "findNextAvailablePosition", segments |-> segs,
     preferredStart |-> p, preferredLength |-> l, tubeLength |-> t, out |-> NoPosition] :
      segs \in SeqsUpTo(PlacedSegments, MaxPlaced), p \in PreferredStarts,
      l \in PreferredLengths, t \in PlacementTubes }

InitPlacement ==
  /\ InitEditor
  /\ InitPattern
  /\ InitSynth
  /\ events = 0
  /\ lastOutcome = "none"
  /\ call \in OverlapCalls \cup PlacementCalls

\* One call of segmentsOverlap.
OverlapCall ==
  /\ call.pc = "ready"
  /\ call.op = "segmentsOverlap"
  /\ call' = [call EXCEPT !.pc = "done", !.out = segmentsOverlap(call.seg1, call.seg2)]
  /\ UNCHANGED << editorVars, patternVars, linkVars, synthVars, events, lastOutcome >>

\* One call of findNextAvailablePosition.
PlacementCall ==
  /\ call.pc = "ready"
  /\ call.op = "findNextAvailablePosition"
  /\ call' = [call EXCEPT !.pc = "done",
                          !.out = findNextAvailablePosition(call.segments, call.preferredStart,
                                      call.preferredLength, call.tubeLength)]
  /\ UNCHANGED << editorVars, patternVars, linkVars, synthVars, events, lastOutcome >>

NextPlacement == OverlapCall \/ PlacementCall

SpecPlacement == InitPlacement /\ [][NextPlacement]_vars

(***************************************************************************)
(* The device link (specification SpecLink)                                *)
(*                                                                         *)
(* connectWs creates a WebSocket and hangs its callbacks on it; the        *)
(* browser runs them later, one at a time.  sockets holds the readyState   *)
(* of every socket created so far, ws is the index of the socket the       *)
(* component holds.  A callback belongs to the socket it was hung on and   *)
(* names no other.                                                         *)
(***************************************************************************)

\* Sockets one session creates.
MaxSockets == 3

\* What the address field may hold after trim(): nothing, the address of a
\* device, or text from which new WebSocket() cannot build a URL.
EspIps == {"", "192.168.4.1", "not an address"}

\* new WebSocket(`ws://${espIp}:81`) throws a SyntaxError on a bad URL.
UrlParses(ip) == ip = "192.168.4.1"

SocketIds == 1..Len(sockets)

\* The sockets that are connecting or open.
LiveSockets == {s \in SocketIds : sockets[s] \in {"CONNECTING", "OPEN"}}

\* !(!ws || ws.readyState !== 1) on the state after the step.
HeldSocketOpen == ws' # NoSocket /\ sockets'[ws'] = "OPEN"

\* A step of the link leaves the editor, the pattern panel and the
\* synthesizer alone.
LinkOnly ==
  /\ UNCHANGED << editorVars, useManualSchedule, calibrationParams, importedSteps,
                  importedMeta, sent, exportData, call, events, lastOutcome >>
  /\ RenderEffects

\* onChange of the ESP32 IP field.
SetEspIp(ip) ==
  /\ espIp' = ip
  /\ UNCHANGED << ws, wsStatus, sockets, wsOpen, lastLog, toast >>
  /\ LinkOnly

\* connectWs, behind the Connect button: shown unless wsStatus is
\* "connected", disabled while it is "connecting".
connectWs ==
  /\ wsStatus = "disconnected"
  /\ \/ /\ espIp = ""
        /\ lastLog' = "Enter ESP32 IP first"
        /\ UNCHANGED << wsStatus, sockets, toast >>
     \/ /\ espIp # ""
        /\ ~UrlParses(espIp)
        /\ wsStatus' = "disconnected"
        /\ lastLog' = "WS connect failed"
        /\ toast' = Toast("Connection failed", "error")
        /\ UNCHANGED sockets
     \/ /\ espIp # ""
        /\ UrlParses(espIp)
        /\ Len(sockets) < MaxSockets
        /\ wsStatus' = "connecting"
        /\ lastLog' = "Connecting"
        /\ sockets' = Append(sockets, "CONNECTING")
        /\ UNCHANGED toast
  /\ UNCHANGED << espIp, ws, wsOpen >>
  /\ LinkOnly

\* The connection of socket s is established and its onopen runs.
SocketOnOpen(s) ==
  /\ s \in SocketIds
  /\ sockets[s] = "CONNECTING"
  /\ sockets' = [sockets EXCEPT ![s] = "OPEN"]
  /\ ws' = s
  /\ wsStatus' = "connected"
  /\ lastLog' = "WS connected"
  /\ toast' = Toast("Connected to device", "success")
  /\ wsOpen' = HeldSocketOpen
  /\ UNCHANGED espIp
  /\ LinkOnly

\* Socket s is closed (the attempt failed, the peer or the network dropped
\* it, or close() has finished) and its onclose runs, after its onerror
\* where there was an error.  wasConnecting reads the wsStatus of the
\* render connectWs ran in, which was "disconnected".
SocketOnClose(s) ==
  /\ s \in SocketIds
  /\ sockets[s] # "CLOSED"
  /\ sockets' = [sockets EXCEPT ![s] = "CLOSED"]
  /\ ws' = NoSocket
  /\ wsStatus' = "disconnected"
  /\ lastLog' = "WS closed"
  /\ toast' = Toast("Disconnected", "warning")
  /\ wsOpen' = HeldSocketOpen
  /\ UNCHANGED espIp
  /\ LinkOnly

\* disconnectWs as a whole, behind the Disconnect button, shown while
\* wsStatus is "connected": ws?.close() starts the closing handshake, the
\* close event comes later.
DisconnectButton ==
  /\ wsStatus = "connected"
  /\ disconnectWs
  /\ sockets' = IF ws # NoSocket /\ sockets[ws] \in {"CONNECTING", "OPEN"}
                THEN [sockets EXCEPT ![ws] = "CLOSING"]
                ELSE sockets
  /\ ws' = NoSocket
  /\ wsStatus' = "disconnected"
  /\ UNCHANGED << espIp, editorVars, call, events, lastOutcome >>
  /\ RenderEffects

NextLink ==
  \/ \E ip \in EspIps : SetEspIp(ip)
  \/ connectWs
  \/ \E s \in SocketIds : SocketOnOpen(s)
  \/ \E s \in SocketIds : SocketOnClose(s)
  \/ DisconnectButton

SpecLink == Init /\ [][NextLink]_vars

(***************************************************************************)
(* Properties of the editor (specification Spec)                           *)
(***************************************************************************)
\* Half-open interval overlap of two segments.
Overlapping(a, b) == a.startCm < b.endCm /\ b.startCm < a.endCm

\* Some segment other than number i (0-based) overlaps the candidate.
CandidateCollides(i, candidate) ==
  \E k \in 1..Len(manualSegments) : k # i + 1 /\ Overlapping(candidate, manualSegments[k])

\* C1: after any sequence of editor operations no two distinct segments of
\* manualSegments overlap (a.startCm < b.endCm and b.startCm < a.endCm).
C1_NoTwoSegmentsOverlap ==
  \A i, j \in 1..Len(manualSegments) :
    i # j => ~Overlapping(manualSegments[i], manualSegments[j])

\* A drag step, a Start edit or an End edit whose candidate segment overlaps
\* another segment.
C2_CollidingEdit ==
  \/ \E x \in PointerXs :
       /\ PointerMove(x)
       /\ HasIdx(manualSegments, manualDraggingIdx)
       /\ CandidateCollides(manualDraggingIdx,
            DragCandidate(At(manualSegments, manualDraggingIdx), manualDraggingHandle,
                          SnapPos(clamp(ToPos(x), 0, manualTubeLengthCm), snapToGrid),
                          MinGapOf(snapToGrid), manualTubeLengthCm))
  \/ \E v \in NumericInputs :
       /\ StartChange(v)
       /\ CandidateCollides(manualSelectedIdx,
            StartEditCandidate(At(manualSegments, manualSelectedIdx), v, MinGapOf(snapToGrid)))
  \/ \E v \in NumericInputs :
       /\ EndChange(v)
       /\ CandidateCollides(manualSelectedIdx,
            EndEditCandidate(At(manualSegments, manualSelectedIdx), v, MinGapOf(snapToGrid),
                             manualTubeLengthCm))

\* C2: a drag-move, a handle drag or a numeric start/end edit whose result
\* would overlap another segment leaves manualSegments exactly as it was.
C2_OverlapIsNoOp == [][C2_CollidingEdit => manualSegments' = manualSegments]_vars

\* A colliding edit has just been rejected while two segments exist.
C2_Witness == lastOutcome = "overlap" /\ Len(manualSegments) >= 2

(***************************************************************************)
(* Properties of the compiler (specification SpecCompile)                  *)
(***************************************************************************)
Done == call.pc = "done"

\* r = Math.round(n / d), said without computing it: r - 1/2 <= n/d < r + 1/2.
IsRoundOf(r, n, d) ==
  LET nn == IF d < 0 THEN -n ELSE n
      dd == IF d < 0 THEN -d ELSE d
  IN  2 * r * dd - dd <= 2 * nn /\ 2 * nn < 2 * r * dd + dd

\* dur = max(1000, Math.round(length / feedSpeed * 1000)), the length in mm
\* and the feed speed in tenths of a mm/s.
IsDurationOf(dur, length, feedSpeed) ==
  LET nn == IF feedSpeed < 0 THEN -(length * 10000) ELSE length * 10000
      dd == IF feedSpeed < 0 THEN -feedSpeed ELSE feedSpeed
  IN  \/ dur = 1000 /\ 2 * nn < 2001 * dd
      \/ dur >= 1000 /\ IsRoundOf(dur, length * 10000, feedSpeed)

\* The two calibration points and the shared ch1 a call works with.
SparseCh0Of(c) == IF "none" \in DOMAIN c THEN 73 ELSE c.sparseCh0

DenseCh0Of(c) == IF "none" \in DOMAIN c THEN 80 ELSE c.denseCh0

SharedCh1Of(c) == IF "none" \in DOMAIN c THEN 70 ELSE c.ch1

ClampedLevel(l) == IF l < 1 THEN 1 ELSE IF l > 10 THEN 10 ELSE l

\* ch0 = round(sparse.ch0 + (dense.ch0 - sparse.ch0) * (L - 1) / 9), L clamped.
IsCh0Of(ch0, level, c) ==
  IsRoundOf(ch0, 9 * SparseCh0Of(c) + (DenseCh0Of(c) - SparseCh0Of(c)) * (ClampedLevel(level) - 1), 9)

\* The first segment of lowest start (the order of a stable ascending sort).
RECURSIVE LowestIdx(_, _, _)
LowestIdx(segs, k, best) ==
  IF k > Len(segs) THEN best
  ELSE LowestIdx(segs, k + 1, IF segs[k].startCm < segs[best].startCm THEN k ELSE best)

RECURSIVE Ascending(_)
Ascending(segs) ==
  IF segs = << >> THEN << >>
  ELSE LET m == LowestIdx(segs, 2, 1)
       IN  << segs[m] >> \o Ascending(SubSeq(segs, 1, m - 1) \o SubSeq(segs, m + 1, Len(segs)))

\* The pieces of a left to right walk over the segments in ascending order:
\* a rest piece where a segment starts after the cursor, then the segment;
\* the walk stops taking segments once `cap` pieces exist.
RECURSIVE WalkPieces(_, _, _, _, _)
WalkPieces(sorted, i, cursor, pieces, cap) ==
  IF i > Len(sorted) \/ Len(pieces) >= cap
  THEN [pieces |-> pieces, cursor |-> cursor]
  ELSE LET seg == sorted[i]
           rest == IF seg.startCm > cursor
                   THEN << [rest |-> TRUE, length |-> seg.startCm - cursor, level |-> 0] >>
                   ELSE << >>
           own == << [rest |-> FALSE, length |-> seg.endCm - seg.startCm,
                      level |-> seg.densityLevel] >>
       IN  WalkPieces(sorted, i + 1, seg.endCm, pieces \o rest \o own, cap)

\* The walk followed by one trailing rest piece iff the cursor is before the
\* end of the tube.
Pieces(segs, tube, cap) ==
  LET w == WalkPieces(Ascending(segs), 1, 0, << >>, cap)
  IN  IF w.cursor < tube
      THEN Append(w.pieces, [rest |-> TRUE, length |-> tube - w.cursor, level |-> 0])
      ELSE w.pieces

\* More pieces than any walk over segs produces: no cap.
NoCap(segs) == 2 * Len(segs) + 2

StepIsPiece(step, piece, feedSpeed, c) ==
  /\ IsDurationOf(step.duration, piece.length, feedSpeed)
  /\ IF piece.rest
     THEN step.ch0 = 0 /\ step.ch1 = 70
     ELSE IsCh0Of(step.ch0, piece.level, c) /\ step.ch1 = SharedCh1Of(c)

StepsArePieces(steps, pieces, feedSpeed, c) ==
  /\ Len(steps) = Len(pieces)
  /\ \A k \in 1..Len(pieces) : StepIsPiece(steps[k], pieces[k], feedSpeed, c)

\* The walk over all segments never meets the cap.
CapNotMet == Pieces(call.segments, call.tubeLengthCm, call.maxSteps)
               = Pieces(call.segments, call.tubeLengthCm, NoCap(call.segments))

\* A SegmentSet: start < end, no two segments overlap, all inside the tube.
IsSegmentSet(segs, tube) ==
  /\ \A k \in 1..Len(segs) :
       segs[k].startCm < segs[k].endCm /\ 0 <= segs[k].startCm /\ segs[k].endCm <= tube
  /\ \A i, j \in 1..Len(segs) : i # j => ~Overlapping(segs[i], segs[j])

\* Sum of duration * feedSpeed over the steps (in units of 1/10000 mm).
RECURSIVE ImpliedLength(_, _)
ImpliedLength(steps, feedSpeed) ==
  IF steps = << >> THEN 0
  ELSE Head(steps).duration * feedSpeed + ImpliedLength(Tail(steps), feedSpeed)

WholeLongPieces ==
  \A k \in 1..Len(Pieces(call.segments, call.tubeLengthCm, NoCap(call.segments))) :
    LET len == Pieces(call.segments, call.tubeLengthCm, NoCap(call.segments))[k].length
    IN  (len * 10000) % call.feedSpeed = 0 /\ len * 10000 >= 1000 * call.feedSpeed

C3_Covered ==
  /\ Done
  /\ call.feedSpeed > 0
  /\ call.segments # << >>
  /\ IsSegmentSet(call.segments, call.tubeLengthCm)
  /\ CapNotMet
  /\ WholeLongPieces

C9_StepsFollowWalk ==
  Done => StepsArePieces(call.steps,
                         Pieces(call.segments, call.tubeLengthCm, NoCap(call.segments)),
                         call.feedSpeed, call.calibration)

\* The example of the specification: {0, 5 cm, level 10}, 10 mm/s, 15 cm.
C9_Example ==
  (/\ Done
   /\ call.segments = << [startCm |-> 0, endCm |-> 50, densityLevel |-> 10] >>
   /\ call.feedSpeed = 100
   /\ call.tubeLengthCm = 150
   /\ call.calibration \in {NoCalibration, InitialCalibration})
    => call.steps = << [ch0 |-> 80, ch1 |-> 70, duration |-> 5000],
                       [ch0 |-> 0, ch1 |-> 70, duration |-> 10000] >>

\* C9 (amended): for a non-empty array the steps are those of the walk in
\* ascending start order that stops taking segments once maxSteps steps
\* exist, followed by the trailing rest step iff the cursor is before the
\* tube end; the durations and the example are as claimed.
C9_StepsFollowCappedWalk ==
  /\ (Done /\ call.segments # << >>)
       => StepsArePieces(call.steps,
                         Pieces(call.segments, call.tubeLengthCm, call.maxSteps),
                         call.feedSpeed, call.calibration)
  /\ C9_Example

\* An array given in descending order, compiled to the two segment
\* steps in ascending order and a trailing rest step.
C9_Witness ==
  /\ Done
  /\ call.segments = << [startCm |-> 10, endCm |-> 50, densityLevel |-> 10],
                        [startCm |-> 0, endCm |-> 10, densityLevel |-> 1] >>
  /\ call.tubeLengthCm = 150
  /\ call.feedSpeed = 100
  /\ call.calibration = NoCalibration
  /\ call.steps = << [ch0 |-> 73, ch1 |-> 70, duration |-> 1000],
                     [ch0 |-> 80, ch1 |-> 70, duration |-> 4000],
                     [ch0 |-> 0, ch1 |-> 70, duration |-> 10000] >>

\* C10: the step of a segment of level L has ch0 = round(sparse.ch0 +
\* (dense.ch0 - sparse.ch0) * (L' - 1) / 9) with L' = L clamped into 1..10,
\* between the two calibration values, sparse.ch0 at L' = 1 and dense.ch0 at
\* L' = 10, and ch1 = the shared ch1.
C10_SegmentStepParams ==
  (Done /\ Len(call.segments) = 1) =>
    LET seg == call.segments[1]
        step == call.steps[IF seg.startCm > 0 THEN 2 ELSE 1]
        lo == Min2(SparseCh0Of(call.calibration), DenseCh0Of(call.calibration))
        hi == Max2(SparseCh0Of(call.calibration), DenseCh0Of(call.calibration))
    IN  /\ IsCh0Of(step.ch0, seg.densityLevel, call.calibration)
        /\ lo <= step.ch0 /\ step.ch0 <= hi
        /\ ClampedLevel(seg.densityLevel) = 1 => step.ch0 = SparseCh0Of(call.calibration)
        /\ ClampedLevel(seg.densityLevel) = 10 => step.ch0 = DenseCh0Of(call.calibration)
        /\ step.ch1 = SharedCh1Of(call.calibration)

\* A segment of a level above 10 compiled under a calibration whose dense
\* ch0 is below its sparse ch0.
C10_Witness ==
  /\ Done
  /\ Len(call.segments) = 1
  /\ call.segments[1].densityLevel = 12
  /\ call.calibration = [InitialCalibration EXCEPT !.denseCh0 = 20, !.sparseCh0 = 90, !.ch1 = 40]
  /\ call.steps[IF call.segments[1].startCm > 0 THEN 2 ELSE 1].ch0 = 20

(***************************************************************************)
(* Properties of sending, export and import (specification SpecPattern)    *)
(***************************************************************************)
\* An ActuationStep: ch0 and ch1 in [0, 100], duration >= 1.
IsActuationStep(step) ==
  /\ 0 <= step.ch0 /\ step.ch0 <= 100
  /\ 0 <= step.ch1 /\ step.ch1 <= 100
  /\ step.duration >= 1

\* C4: every step of every pattern message handed to the socket by
\* sendPattern or sendImportedPattern is an ActuationStep, whatever was typed
\* into the calibration panel.
C4_SentStepsInRange ==
  sent.type = "pattern" => \A k \in 1..Len(sent.steps) : IsActuationStep(sent.steps[k])

\* C5: the ehdSteps of an exported object equal the steps extracted from that
\* object on import under the calibration it was exported with.
C5_ExportImportRoundTrip ==
  (exportData.written /\ calibrationParams = exportData.calibration)
    => extractStepsFromJson(ExportedJson) = exportData.ehdSteps

\* A candidate step of a file with numbers in range in all three fields.
IsValidCandidate(s) ==
  /\ "n" \in DOMAIN s.ch0 /\ "n" \in DOMAIN s.ch1 /\ "n" \in DOMAIN s.duration
  /\ IsActuationStep([ch0 |-> s.ch0.n, ch1 |-> s.ch1.n, duration |-> s.duration.n])

\* C6: an import of a file with a `steps` array keeps exactly the candidate
\* steps whose ch0 and ch1 are in [0, 100] and whose duration is >= 1, as
\* they are and in their order.
C6_AcceptedIffInRange ==
  [][\A file \in StepFiles :
       (file.json.steps.array # << >> /\ handleImportJsonFile(file))
         => importedSteps' = StepsOf(SelectSeq(file.json.steps.array, IsValidCandidate))]_vars

\* C7: an import of a file whose text is no JSON leaves importedSteps and
\* importedMeta as they were and reports the failure by an error toast and a
\* log entry.
C7_UnparsableImportFailsWhole ==
  [][(\E file \in ImportFiles : ~file.parseable /\ handleImportJsonFile(file))
       => /\ importedSteps' = importedSteps
          /\ importedMeta' = importedMeta
          /\ toast'.visible /\ toast'.type = "error"
          /\ lastLog' = "Import error"]_vars

\* A failed import after a successful one: the imported steps are still there.
C7_Witness ==
  /\ lastLog = "Import error"
  /\ toast.visible /\ toast.type = "error"
  /\ importedSteps # NullSteps
  /\ importedMeta.totalSteps = Len(importedSteps)

(***************************************************************************)
(* Further properties of the editor (specification Spec)                   *)
(***************************************************************************)
\* C11: every segment of manualSegments has startCm < endCm and a density
\* level in 1..10, whatever editor operations came before.
C11_SegmentsWellFormed ==
  \A k \in 1..Len(manualSegments) :
    /\ manualSegments[k].startCm < manualSegments[k].endCm
    /\ manualSegments[k].densityLevel \in 1..10

\* The cursor of the gap scan before the k-th segment in ascending order.
ScanCursor(sorted, k) == IF k = 1 THEN 0 ELSE sorted[k - 1].endCm

\* No placement for a new segment of the default length at pointer x: the
\* preferred place does not fit or is taken, no gap before a segment (in
\* ascending order, from 0) holds it, and neither does the rest of the tube.
NoPlacementAt(x) ==
  LET start == SnapPos(clamp(ToPos(x), 0, manualTubeLengthCm), snapToGrid)
      wanted == [startCm |-> start, endCm |-> start + preferredLength]
      sorted == Ascending(manualSegments)
  IN  /\ \/ wanted.endCm > manualTubeLengthCm
         \/ \E k \in 1..Len(sorted) : Overlapping(sorted[k], wanted)
      /\ \A k \in 1..Len(sorted) :
           ScanCursor(sorted, k) + preferredLength > sorted[k].startCm
      /\ ScanCursor(sorted, Len(sorted) + 1) + preferredLength > manualTubeLengthCm

\* C12: a pointer down on empty tube area for which there is no placement
\* leaves manualSegments, manualSelectedIdx, manualDraggingIdx and
\* manualDraggingHandle as they were.
C12_NoSlotIsNoOp ==
  [][\A x \in PointerXs, y \in PointerYs :
       (NoPlacementAt(x) /\ PointerDownAdd(x, y))
         => UNCHANGED << manualSegments, manualSelectedIdx, manualDraggingIdx,
                         manualDraggingHandle >>]_vars

\* A click that found no placement on a tube that holds a segment.
C12_Witness ==
  /\ lastOutcome = "noSlot"
  /\ Len(manualSegments) >= 1
  /\ \E x \in PointerXs : NoPlacementAt(x)

(***************************************************************************)
(* Further properties of the import (specification SpecPattern)            *)
(***************************************************************************)
\* A file without a non-empty `steps` or `generated.steps` array.
HasNoStepList(json) ==
  /\ json.steps = Absent \/ json.steps.array = << >>
  /\ json.steps # Absent \/ json.generatedSteps = Absent \/ json.generatedSteps.array = << >>

\* The calibration a derivation works with: the file's values, the current
\* ones where the file names none.
DerivationCalibration(json) ==
  LET own(field) == /\ json.calibration # Absent
                    /\ json.calibration.object[field] # Absent
      pick(field) == IF own(field) THEN json.calibration.object[field].n
                     ELSE calibrationParams[field]
  IN  [field \in {"denseCh0", "denseDuration", "sparseCh0", "sparseDuration",
                  "ch1", "feedSpeed"} |-> pick(field)]

\* The steps derived from the segments of a file: none when the feed speed
\* is 0 (no finite duration), else the compiled steps with ch0 and ch1
\* brought into [0, 100].
DerivedSteps(json) ==
  LET c == DerivationCalibration(json)
      segs == IF json.segments = Absent THEN << >> ELSE json.segments.array
      tube == IF json.tubeLengthCm = Absent THEN 300 ELSE json.tubeLengthCm.n
      compiled == segmentsToEHDSteps(segs, IF c.feedSpeed = 0 THEN 1 ELSE c.feedSpeed,
                                     100, c, tube)
  IN  IF c.feedSpeed = 0 /\ segs # << >> THEN << >>
      ELSE [k \in 1..Len(compiled) |->
              [ch0 |-> Max2(0, Min2(100, compiled[k].ch0)),
               ch1 |-> Max2(0, Min2(100, compiled[k].ch1)),
               duration |-> compiled[k].duration]]

\* C13: an import of a file without a non-empty step list takes the steps
\* derived from the file's segments, calibration (the current one for
\* missing fields) and tube length, and fails (importedSteps null, error
\* toast and log) exactly when the derivation gives no valid step.
C13_ImportDerivesFromSegments ==
  [][\A file \in ImportFiles :
       (file.parseable /\ HasNoStepList(file.json) /\ handleImportJsonFile(file))
         => /\ importedSteps' = DerivedSteps(file.json)
            /\ IF DerivedSteps(file.json) = << >>
               THEN /\ importedSteps' = NullSteps
                    /\ importedMeta' = NullMeta
                    /\ toast'.visible /\ toast'.type = "error"
                    /\ lastLog' = "Import failed: no valid steps"
               ELSE /\ importedMeta' = [name |-> file.name,
                                        totalSteps |-> Len(DerivedSteps(file.json))]
                    /\ lastLog' = "Imported"]_vars

\* Steps derived under a file calibration that names denseCh0 only, after
\* the current ch1 was changed in the panel.
C13_Witness ==
  /\ lastLog = "Imported"
  /\ importedMeta.name = "partial.json"
  /\ calibrationParams.ch1 = 40
  /\ importedSteps[2] = [ch0 |-> 100, ch1 |-> 40, duration |-> 1000]

(***************************************************************************)
(* Properties of the synthesizer (specification SpecSynth)                 *)
(***************************************************************************)
\* A step in which the recompute effect runs.
RecomputeRuns ==
  \/ \E x \in PointXs, y \in PointYs : AddPoint(x, y)
  \/ ClearPoints
  \/ \E raster \in Rasters : SetImgData(raster)

\* recompute finds fewer than 2 path points or no raster.
DegenerateInputs == imgData = NoRaster \/ Len(points) < 2

\* C15 as stated: whenever recompute runs with fewer than 2 path points or with
\* no raster, the resampled path, the target signal, the synthesized signal
\* and the droplet schedule are all empty afterwards.
C15_DegenerateClearsAll ==
  [][(DegenerateInputs' /\ RecomputeRuns)
       => /\ resampledPath' = << >>
          /\ fSignal' = << >>
          /\ gSignal' = << >>
          /\ dropSchedule' = << >>]_vars

\* C15 amended: whenever recompute runs with fewer than 2 path points or with
\* no raster, the resampled path, the target signal and the synthesized signal
\* are empty afterwards; the droplet schedule is empty afterwards when the
\* manual schedule is off, and is left as it was when the manual schedule is on.
C15_DegenerateClearsOwnOutputs ==
  [][(DegenerateInputs' /\ RecomputeRuns)
       => /\ resampledPath' = << >>
          /\ fSignal' = << >>
          /\ gSignal' = << >>
          /\ dropSchedule' = IF useManualSchedule THEN dropSchedule ELSE << >>]_vars

\* The manual schedule is off and its droplets, once in dropSchedule, have been
\* cleared by a recompute that found a raster but no path.
C15_Witness ==
  /\ ~useManualSchedule
  /\ manualSegments # << >>
  /\ imgData # NoRaster
  /\ points = << >>
  /\ dropSchedule = << >>
  /\ fSignal = << >>
  /\ resampledPath = << >>

\* sendPattern hands the fallback list to an open socket.
FallbackSent ==
  /\ wsOpen
  /\ (~useManualSchedule \/ Len(manualSegments) = 0)
  /\ sendPattern

\* C14: when the segment model is not the source (manual schedule off, or no
\* segment authored), the step list sendPattern sends is derived from the
\* current droplet output of the synthesizer; in particular, while that output
\* holds no droplet the list holds no step that fires one (ch0 > 0).
C14_FallbackFollowsDroplets ==
  [][(FallbackSent /\ dropSchedule = << >>)
       => \A k \in 1..Len(sent'.steps) : sent'.steps[k].ch0 = 0]_vars

\* C14 amended: when the segment model is not the source, the step list
\* sendPattern sends is the fixed demo pattern {80, 70, 1500}, {73, 70, 2000},
\* whatever the droplet output of the synthesizer is.
C14_FallbackIsDemoPattern ==
  [][FallbackSent
       => /\ sent'.type = "pattern"
          /\ sent'.steps = << [ch0 |-> 80, ch1 |-> 70, duration |-> 1500],
                              [ch0 |-> 73, ch1 |-> 70, duration |-> 2000] >>]_vars

\* The demo pattern has been sent and stands next to a droplet schedule of
\* three PWM droplets synthesized with the manual schedule off.
C14_Witness ==
  /\ ~useManualSchedule
  /\ mode = "PWM"
  /\ Len(fSignal) = 3
  /\ Len(dropSchedule) = 3
  /\ lastLog = "TX"
  /\ sent.steps = << [ch0 |-> 80, ch1 |-> 70, duration |-> 1500],
                     [ch0 |-> 73, ch1 |-> 70, duration |-> 2000] >>

\* recompute ran on a path and a raster, and its droplets were stored.
SynthesisStored == ~useManualSchedule' /\ ~DegenerateInputs' /\ RecomputeRuns

\* The 1-based index in fSignal of the sample a droplet was pushed at.
SampleOf(drop) == drop.s_px.n \div sampleStepPx + 1

\* The number of samples of gSignal in from..to whose quantized output is 1.
OnesIn(from, to) == Cardinality({k \in from..to : gSignal[k] = One})

\* The target signal is one value at every sample.
ConstantTarget == \A k \in 1..Len(fSignal) : fSignal[k] = fSignal[1]

C18_PwmAmplitudeOneWidthMonotone ==
  [][(mode' = "PWM" /\ SynthesisStored) =>
       \A j \in 1..Len(dropSchedule') :
         /\ dropSchedule'[j].amplitude = One
         /\ \A k \in 1..Len(dropSchedule') :
              RLeq(fSignal'[SampleOf(dropSchedule'[j])], fSignal'[SampleOf(dropSchedule'[k])])
                => RLeq(dropSchedule'[j].width_mm, dropSchedule'[k].width_mm)]_vars

\* Three PWM droplets over intensities 0, 2/3 and 1 with the default widths:
\* 0.2 mm, 11/15 mm and 1 mm wide, each of amplitude 1.
C18_Witness ==
  /\ mode = "PWM"
  /\ ~useManualSchedule
  /\ fSignal = << Zero, Rat(2, 3), One >>
  /\ Len(dropSchedule) = 3
  /\ dropSchedule[1].width_mm = Rat(1, 5)
  /\ dropSchedule[2].width_mm = Rat(11, 15)
  /\ dropSchedule[3].width_mm = One
  /\ \A k \in 1..3 : dropSchedule[k].amplitude = One

\* C19: in AM mode every emitted droplet has the width at the midpoint of
\* widthMin and widthMax, and its amplitude is the intensity of its sample.
C19_AmWidthConstantAmplitudeIntensity ==
  [][(mode' = "AM" /\ SynthesisStored) =>
       \A j \in 1..Len(dropSchedule') :
         /\ 20 * dropSchedule'[j].width_mm.n
              = (widthMinMm' + widthMaxMm') * dropSchedule'[j].width_mm.d
         /\ dropSchedule'[j].amplitude = fSignal'[SampleOf(dropSchedule'[j])]]_vars

\* Three AM droplets over intensities 0, 2/3 and 1 with the default widths:
\* each 0.6 mm wide, amplitudes 0, 2/3 and 1.
C19_Witness ==
  /\ mode = "AM"
  /\ ~useManualSchedule
  /\ widthMinMm = 2
  /\ widthMaxMm = 10
  /\ fSignal = << Zero, Rat(2, 3), One >>
  /\ Len(dropSchedule) = 3
  /\ \A k \in 1..3 : dropSchedule[k].width_mm = Rat(3, 5)
  /\ dropSchedule[1].amplitude = Zero
  /\ dropSchedule[2].amplitude = Rat(2, 3)
  /\ dropSchedule[3].amplitude = One

(***************************************************************************)
(* Properties of the samplers (specification SpecSampling)                 *)
(***************************************************************************)
\* A finished call of resampleUniform on a single segment.
ResampleDone == call.pc = "done" /\ call.op = "resampleUniform" /\ Len(call.pts) = 2

\* Every consecutive pair of the first n points of out is exactly s apart.
EvenlySpaced(out, n, s) == \A k \in 1..(n - 1) : dist(out[k], out[k + 1]) = s

\* C16 as stated: resampleUniform applied to a single straight segment of
\* length L with step s returns floor(L/s) interior points plus both endpoints
\* of the segment, with every consecutive pair exactly s apart except the last
\* fragment.
C16_ResampleHasBothEndpoints ==
  ResampleDone =>
    LET interior == dist(call.pts[1], call.pts[2]) \div call.stepPx
    IN  /\ Len(call.out) = interior + 2
        /\ call.out[1] = call.pts[1]
        /\ call.out[Len(call.out)] = call.pts[2]
        /\ EvenlySpaced(call.out, Len(call.out) - 1, call.stepPx)

\* C16 amended: resampleUniform applied to a single straight segment from a to
\* b of length L with step s returns a followed by floor(L/s) points, the k-th
\* of them on the segment at distance k * s from a, so every consecutive pair
\* is exactly s apart; the fragment after the last point is shorter than s and
\* b itself is returned only when it is a or s divides L.
C16_ResampleStartsAndSteps ==
  ResampleDone =>
    LET a == call.pts[1]
        b == call.pts[2]
        length == dist(a, b)
        count == length \div call.stepPx
    IN  /\ Len(call.out) = count + 1
        /\ call.out[1] = a
        /\ \A k \in 1..count :
             /\ dist(a, call.out[k + 1]) = k * call.stepPx
             /\ dist(call.out[k + 1], b) = length - k * call.stepPx
        /\ EvenlySpaced(call.out, count + 1, call.stepPx)
        /\ dist(call.out[count + 1], b) < call.stepPx
        /\ (call.out[count + 1] = b) <=> (length % call.stepPx = 0)

\* A segment of length 25 along (3, 4) with step 10: the start and two points,
\* the far end (15, 20) left out.
C16_Witness ==
  /\ ResampleDone
  /\ call.pts = << [x |-> 0, y |-> 0], [x |-> 15, y |-> 20] >>
  /\ call.stepPx = 10
  /\ call.out = << [x |-> 0, y |-> 0], [x |-> 6, y |-> 8], [x |-> 12, y |-> 16] >>

GrayscaleDone == call.pc = "done" /\ call.op = "grayscaleAt"

\* The pixel column (row) nearest to the coordinate v of a raster of the given
\* size: the first one left of the raster, the last one right of it.
NearestPixel(v, size) ==
  IF v < 0 THEN 0
  ELSE IF v >= (size - 1) * SubPx THEN size - 1
  ELSE CHOOSE c \in 0..(size - 1) : c * SubPx <= v /\ v < (c + 1) * SubPx

\* C20: grayscaleAt, for every (x, y) including points outside the raster,
\* reads only in-bounds indices (0 <= idx and idx + 2 < width * height * 4) and
\* returns the gray of the pixel nearest to (x, y): column floor(x) clamped to
\* [0, width - 1], row floor(y) clamped to [0, height - 1].
C20_GrayscaleReadsNearestPixel ==
  GrayscaleDone =>
    LET image == call.imageData
        at == (NearestPixel(call.y, image.height) * image.width
                 + NearestPixel(call.x, image.width)) * 4
    IN  /\ 0 <= call.idx
        /\ call.idx + 2 < image.width * image.height * 4
        /\ call.idx = at
        /\ call.out = Rat(299 * image.data[at + 1] + 587 * image.data[at + 2]
                            + 114 * image.data[at + 3], 255000)

\* A sample far right of and above the 3 x 2 raster reads the last pixel of the
\* first row (index 8): r 20, g 41, b 62.
C20_Witness ==
  /\ GrayscaleDone
  /\ call.imageData.width = 3
  /\ call.x = 40 * SubPx
  /\ call.y = -1
  /\ call.idx = 8
  /\ call.out = Rat(299 * 20 + 587 * 41 + 114 * 62, 255000)

(***************************************************************************)
(* Properties of the placement helpers (specification SpecPlacement)       *)
(***************************************************************************)
OverlapDone == call.pc = "done" /\ call.op = "segmentsOverlap"

\* The two intervals share more than a point: some stretch of positive length
\* lies in both (stated on the ends: the later start is before the earlier end).
ShareAStretch(a, b) == Max2(a.startCm, b.startCm) < Min2(a.endCm, b.endCm)

\* C21: segmentsOverlap(a, b) is true iff a.startCm < b.endCm and b.startCm <
\* a.endCm; it is symmetric, segments that only touch at an endpoint do not
\* overlap, ({0,5},{5,10}) is false and ({0,5},{4,10}) is true.
C21_OverlapIsStrictAndSymmetric ==
  OverlapDone =>
    LET a == call.seg1
        b == call.seg2
    IN  /\ call.out <=> (a.startCm < b.endCm /\ b.startCm < a.endCm)
        /\ call.out = segmentsOverlap(b, a)
        /\ (a.startCm < a.endCm /\ b.startCm < b.endCm) => (call.out <=> ShareAStretch(a, b))
        /\ (a.endCm = b.startCm /\ a.startCm < a.endCm /\ b.startCm < b.endCm) => ~call.out
        /\ (a = [startCm |-> 0, endCm |-> 50] /\ b = [startCm |-> 50, endCm |-> 100])
             => call.out = FALSE
        /\ (a = [startCm |-> 0, endCm |-> 50] /\ b = [startCm |-> 40, endCm |-> 100])
             => call.out = TRUE

\* The touching pair of the specification, found not to overlap.
C21_Witness ==
  /\ OverlapDone
  /\ call.seg1 = [startCm |-> 0, endCm |-> 50]
  /\ call.seg2 = [startCm |-> 50, endCm |-> 100]
  /\ call.out = FALSE

(***************************************************************************)
(* Further properties of the compiler (specification SpecCompile)          *)
(***************************************************************************)
\* C22: the schedule returned by segmentsToEHDSteps never contains more than
\* maxSteps steps, gap steps and the trailing rest step included.
C22_StepsWithinMaxSteps == Done => Len(call.steps) <= call.maxSteps

\* The number of steps the first k segments (ascending) give: one per segment
\* and one per segment that starts after the end of the one before it (after
\* 0 for the first).
RECURSIVE StepsOfFirst(_, _)
StepsOfFirst(sorted, k) ==
  IF k = 0 THEN 0
  ELSE StepsOfFirst(sorted, k - 1) + 1
         + (IF sorted[k].startCm > (IF k = 1 THEN 0 ELSE sorted[k - 1].endCm) THEN 1 ELSE 0)

\* The segments compiled before the count of steps reaches maxSteps: the
\* least k whose first k segments give maxSteps steps or more, Len if none.
CompiledCount(sorted, maxSteps) ==
  IF \E k \in 1..Len(sorted) : StepsOfFirst(sorted, k) >= maxSteps
  THEN CHOOSE k \in 1..Len(sorted) :
         /\ StepsOfFirst(sorted, k) >= maxSteps
         /\ \A j \in 1..(k - 1) : StepsOfFirst(sorted, j) < maxSteps
  ELSE Len(sorted)

\* The call met the cap with segments left over.
CapDropsSegments ==
  /\ Done
  /\ call.segments # << >>
  /\ CompiledCount(Ascending(call.segments), call.maxSteps) < Len(call.segments)

PlacementDone == call.pc = "done" /\ call.op = "findNextAvailablePosition"

\* The result that names the interval from start of the given length.
SlotAt(start, length) == [found |-> TRUE, startCm |-> start, endCm |-> start + length]

\* The preferred slot ends at or before the tube end and overlaps no segment.
PreferredIsFree ==
  /\ call.preferredStart + call.preferredLength <= call.tubeLength
  /\ \A k \in 1..Len(call.segments) :
       ~Overlapping(call.segments[k], SlotAt(call.preferredStart, call.preferredLength))

\* The gaps of the scan that hold the length: k <= Len names the gap before
\* the k-th segment in ascending order, Len + 1 the space after the last
\* segment up to the tube end.
FittingGaps ==
  LET sorted == Ascending(call.segments)
  IN  { k \in 1..(Len(sorted) + 1) :
          ScanCursor(sorted, k) + call.preferredLength
            <= (IF k <= Len(sorted) THEN sorted[k].startCm ELSE call.tubeLength) }

\* The result of the scan: the first fitting gap, null when there is none.
FirstFittingGap ==
  IF FittingGaps = {} THEN NoPosition
  ELSE SlotAt(ScanCursor(Ascending(call.segments),
                         CHOOSE k \in FittingGaps : \A j \in FittingGaps : k <= j),
              call.preferredLength)

\* Some interval of the length inside [0, tubeLength] overlaps no segment.
FreeIntervalExists ==
  \E s \in 0..(call.tubeLength - call.preferredLength) :
    \A k \in 1..Len(call.segments) :
      ~Overlapping(call.segments[k], SlotAt(s, call.preferredLength))

PolylineDone == call.pc = "done" /\ call.op = "resampleUniform" /\ call.pts # << >>

\* Arc length from the first point to the i-th point of the polyline.
RECURSIVE ArcLengthTo(_, _)
ArcLengthTo(pts, i) ==
  IF i <= 1 THEN 0 ELSE ArcLengthTo(pts, i - 1) + dist(pts[i - 1], pts[i])

\* The point of the polyline at arc length s <= total length from its first
\* point: on the first segment whose far end is at arc length >= s.
PointAtArcLength(pts, s) ==
  IF s = 0 THEN pts[1]
  ELSE LET j == CHOOSE i \in 1..(Len(pts) - 1) :
                  /\ ArcLengthTo(pts, i + 1) >= s
                  /\ \A h \in 1..(i - 1) : ArcLengthTo(pts, h + 1) < s
           along == s - ArcLengthTo(pts, j)
           segLen == dist(pts[j], pts[j + 1])
       IN  [x |-> pts[j].x + ((pts[j + 1].x - pts[j].x) * along) \div segLen,
            y |-> pts[j].y + ((pts[j + 1].y - pts[j].y) * along) \div segLen]

\* C25: for a polyline with any number of segments the k-th point returned by
\* resampleUniform (k >= 0) lies at cumulative arc length k * stepPx from the
\* first input point, also across segment joins, and the number of returned
\* points is 1 + floor(totalLength / stepPx).
C25_ResampleSpacingAcrossJoins ==
  PolylineDone =>
    LET total == ArcLengthTo(call.pts, Len(call.pts))
    IN  /\ Len(call.out) = 1 + total \div call.stepPx
        /\ \A k \in 0..(Len(call.out) - 1) :
             /\ k * call.stepPx <= total
             /\ call.out[k + 1] = PointAtArcLength(call.pts, k * call.stepPx)

\* Legs of 5, 10 and 5 resampled every 10: the second point lies 5 along the
\* second leg, the third at arc length 20 on the far end of the third leg.
C25_Witness ==
  /\ PolylineDone
  /\ call.pts = << [x |-> 0, y |-> 0], [x |-> 5, y |-> 0], [x |-> 11, y |-> 8],
                   [x |-> 7, y |-> 11] >>
  /\ call.stepPx = 10
  /\ call.out = << [x |-> 0, y |-> 0], [x |-> 8, y |-> 4], [x |-> 7, y |-> 11] >>

(***************************************************************************)
(* Further properties of the synthesizer (specification SpecSynth)         *)
(***************************************************************************)
\* The error the samples before i leave on sample i: 7/16 of the error of
\* sample i - 1, 5/16 of i - 2, 3/16 of i - 3 and 1/16 of i - 4.
RECURSIVE Received(_, _, _)
Received(errs, i, k) ==
  IF k > 4 \/ k >= i THEN Zero
  ELSE RAdd(RMul(errs[i - k], << Rat(7, 16), Rat(5, 16), Rat(3, 16), Rat(1, 16) >>[k]),
            Received(errs, i, k + 1))

\* Error diffusion over every sample of f in turn: the quantized outputs and
\* the errors (value minus output) of the samples 1..Len(outs) are known.
RECURSIVE Diffused(_, _, _)
Diffused(f, outs, errs) ==
  IF Len(outs) = Len(f) THEN outs
  ELSE LET i == Len(outs) + 1
           v == Clamp01(RAdd(f[i], Received(errs, i, 1)))
           out == IF RLeq(Rat(1, 2), v) THEN One ELSE Zero
       IN  Diffused(f, Append(outs, out), Append(errs, RSub(v, out)))

SynthesizerDroplets ==
  IF DegenerateInputs THEN << >>
  ELSE Synthesize(Intensities(imgData, Uniform(points)), mode, widthMinMm, widthMaxMm).drops

\* C27: after any input change and once the triggered effects have run,
\* dropSchedule is the full re-derivation from the current inputs: the
\* segment-derived records when useManualSchedule is true, the synthesizer
\* output for the current path, raster and mode when it is false.
C27_DropScheduleIsRederived ==
  dropSchedule = IF useManualSchedule
                 THEN ManualDrops(manualSegments, manualTubeLengthCm)
                 ELSE SynthesizerDroplets

(***************************************************************************)
(* Further properties of the editor: the tube (specification Spec)         *)
(***************************************************************************)
\* C28: after any sequence of editor operations every segment lies inside the
\* tube: 0 <= startCm and endCm <= manualTubeLengthCm.
C28_SegmentsInsideTube ==
  \A k \in 1..Len(manualSegments) :
    /\ 0 <= manualSegments[k].startCm
    /\ manualSegments[k].endCm <= manualTubeLengthCm

(***************************************************************************)
(* Further properties of the synthesizer: droplet cadence (specification   *)
(* SpecSynth)                                                              *)
(***************************************************************************)
\* max(minSpacingPx, sampleStepPx), in px.
ConfiguredSpacingPx ==
  IF RLeq(Rat(sampleStepPx, 1), minSpacingPx) THEN minSpacingPx ELSE Rat(sampleStepPx, 1)

C30_OneLiveSocketShown ==
  /\ (wsStatus = "connected")
       <=> (ws # NoSocket /\ ws = Len(sockets) /\ sockets[ws] = "OPEN")
  /\ (sockets # << >> /\ sockets[Len(sockets)] = "OPEN")
       => (ws = Len(sockets) /\ wsStatus = "connected")
  /\ Cardinality(LiveSockets) <= 1

====
